---- MODULE Spec2Model ----
(***************************************************************************)
(* Batch controller of the resume analyser: AIAnalysisService              *)
(* (startAnalysis / stopAnalysis), the job store of analysisStorage.js and *)
(* the dashboard's stop handler.  Every `await` of the source is a         *)
(* suspension point: an async call is a process whose pc names the await   *)
(* it is suspended at, and one action runs the code from one await to the  *)
(* next.                                                                   *)
(*                                                                         *)
(* The module holds several specifications, each over its own group of     *)
(* variables while the other groups stay at their idle values:             *)
(*   Spec       the batch controller (startAnalysis, stopAnalysis, store)  *)
(*   RetrySpec  one call of executeWithRetry                               *)
(*   NormSpec   one call of parseExtractionResponse, and of the parser of  *)
(*              createRobustChain on the same text                         *)
(*   ResumeSpec one call of analyzeResume: the section extractors and the  *)
(*              final analysis                                             *)
(*   SynthSpec  one call of performFinalAnalysis, retries and parser       *)
(*              inside it                                                  *)
(*   PipelineSpec  a batch of one resume with analyzeResume unfolded       *)
(*   EnrichSpec one call of enrichContactFields                            *)
(*   FairSpec   the service under fairness of every await of a call        *)
(***************************************************************************)
EXTENDS Integers, Sequences, FiniteSets, TLC

\* ---------------------------------------------------------------- bounds
MaxJobs    == 2   \* job ids handed out by saveAnalysisResult / passed to startAnalysis
MaxResumes == 2   \* longest extractedResumeData list
MaxStops   == 2   \* stop requests (service or dashboard) in one behaviour

Jobs == 1..MaxJobs
Null == 0         \* null / undefined

VARIABLES
  isProcessing,       \* AIAnalysisService.isProcessing
  currentAnalysisId,  \* AIAnalysisService.currentAnalysisId (Null when null)
  analyses,           \* localStorage 'analysisResults': job id -> job record
  llmConfig,          \* provider of getDefaultConfiguration(), "none" when null
  analysisJobs,       \* Home's analysisJobs state: the jobs last loaded as 'processing'
  pc,                 \* per startAnalysis call (one per job id): where it is suspended
  totalResumes,       \* per call: extractedResumeData.length
  i,                  \* per call: loop index
  err,                \* per call: the error the call threw ("none" when none)
  pendingStops,       \* stopAnalysis calls suspended at their await import
  usedIds,            \* ids already produced by Date.now() or passed to startAnalysis
  stopCount,          \* stop requests issued so far
  \* history variables (observations, never read by the program)
  handled,            \* per call: resumes whose analyzeResume has settled
  invoked,            \* per call: a model invocation was made
  lastOutcome,        \* per call: how the last handled resume settled
  stopCalled,         \* per call: stop was requested while the call was active
  stopAt              \* per call: number of the resume in flight at the last stop
                      \* requested with no start() issued since (0: none)

vars == <<isProcessing, currentAnalysisId, analyses, llmConfig, analysisJobs,
          pc, totalResumes, i, err, pendingStops, usedIds, stopCount,
          handled, invoked, lastOutcome, stopCalled, stopAt>>

\* ------------------------------------------- executeWithRetry (one call)
MaxAttemptsBound == 4   \* largest maxAttempts argument drawn

VARIABLES
  maxAttempts,        \* the maxAttempts argument
  attempt,            \* the loop variable
  lastError,          \* lastError (Null while undefined)
  retryPc,            \* "invoking" (await chain.invoke), "waiting" (await the
                      \* timer), "returned", "threw"; "off" outside RetrySpec
  retryResult,        \* the value the call resolved with (Null when none)
  thrown,             \* the error the call rejected with (Null when none)
  \* history variables
  invocations,        \* chain.invoke calls issued
  errors,             \* the error of each failed attempt, in order
  delays              \* the delay of each timer set, in order

retryVars == <<maxAttempts, attempt, lastError, retryPc, retryResult, thrown,
               invocations, errors, delays>>

\* ------------------------------------ parseExtractionResponse (one call)
VARIABLES
  response,           \* the text handed to parseExtractionResponse
  normPc,             \* the step next: "direct", "fenced", "brace", "sanitize",
                      \* "catch"; "returned", "threw"; "off" outside NormSpec
  normResult,         \* what the call returned (<<"none">> before)
  normStep,           \* history: the step that returned (5: the outer catch)
  robustResult        \* what RobustJsonOutputParser.parse returned for the text

parserVars == <<response, normPc, normResult, normStep, robustResult>>

\* ------------------------------------------------ analyzeResume (one call)
VARIABLES
  structuredData,     \* resumeData.structuredData
  resumeFields,       \* analysisConfig.resumeFields
  resumePc,           \* "called", "joining" (await Promise.all), "additional"
                      \* (await extractAdditionalFields), "synth" (await
                      \* performFinalAnalysis), "returned", "threw"; "off"
                      \* outside ResumeSpec
  extractor,          \* per section: "idle", "running", "settled", "rejected",
                      \* or "resolved" (Promise.resolve of the extracted data)
  sectionValue,       \* per section: personalInfo, educationInfo,
                      \* workExperienceInfo, additionalFields
  analysisResult,     \* what analyzeResume resolved with
  \* history variables
  callOutcome,        \* per model call: how executeWithRetry ended
  started,            \* per model call: the step it was issued at (0: never)
  settled,            \* per model call: the step it settled at (0: not yet)
  clock               \* steps taken

resumeVars == <<structuredData, resumeFields, resumePc, extractor, sectionValue,
                analysisResult, callOutcome, started, settled, clock>>

\* ------------------------------------------- enrichContactFields (one call)
VARIABLES
  contactData,        \* the data argument: null, or the parsed object
  contactFound,       \* per contact field: what the helper found in the text
  enrichPc,           \* "called", "returned"; "off" outside EnrichSpec
  enrichResult        \* the object returned

enrichVars == <<contactData, contactFound, enrichPc, enrichResult>>

\* the variables the batch controller never touches
notBatch == <<retryVars, parserVars, resumeVars, enrichVars>>

\* the variables executeWithRetry never touches
notRetry == <<vars, parserVars, resumeVars, enrichVars>>

\* the variables the parsers never touch
notParser == <<vars, retryVars, resumeVars, enrichVars>>

\* the variables analyzeResume never touches
notResume == <<vars, retryVars, parserVars, enrichVars>>

allVars == <<vars, retryVars, parserVars, resumeVars, enrichVars>>

\* the retry executor is not running
RetryOff ==
  /\ maxAttempts = 0
  /\ attempt = 0
  /\ lastError = Null
  /\ retryPc = "off"
  /\ retryResult = Null
  /\ thrown = Null
  /\ invocations = 0
  /\ errors = <<>>
  /\ delays = <<>>

\* no parser is running
ParserOff ==
  /\ response = ""
  /\ normPc = "off"
  /\ normResult = <<"none">>
  /\ normStep = 0
  /\ robustResult = <<"none">>

\* analyzeResume is not running
ResumeOff ==
  /\ structuredData = [isNull |-> TRUE]
  /\ resumeFields = [defined |-> FALSE, toggles |-> {}, custom |-> {}]
  /\ resumePc = "off"
  /\ extractor = <<>>
  /\ sectionValue = <<>>
  /\ analysisResult = [none |-> TRUE]
  /\ callOutcome = <<>>
  /\ started = <<>>
  /\ settled = <<>>
  /\ clock = 0

\* enrichContactFields is not running
EnrichOff ==
  /\ contactData = [isNull |-> TRUE, obj |-> <<>>]
  /\ contactFound = <<>>
  /\ enrichPc = "off"
  /\ enrichResult = <<>>

\* ------------------------------------------------------------ job store
Terminal == {"completed", "failed", "stopped"}

\* saveAnalysisResult: the defaults, then analysisData (records: [])
NewAnalysis ==
  [status |-> "processing", processedRecords |-> 0, poolRecords |-> 0,
   totalRecords |-> 0, records |-> <<>>]

\* getAnalysisById: analyses.find(...) is undefined for an unknown id
HasAnalysis(store, id) == id \in DOMAIN store

\* updateAnalysisStatus: map over the stored jobs, only the matching one changes
updateAnalysisStatus(store, id, status) ==
  [j \in DOMAIN store |->
     IF j = id THEN [store[j] EXCEPT !.status = status] ELSE store[j]]

\* addAnalysisRecord with a fault: the new record is put in front of the list
addAnalysisRecordFirst(store, id, record) ==
  [j \in DOMAIN store |->
     IF j = id
       THEN [store[j] EXCEPT !.records = <<record>> \o store[j].records]
       ELSE store[j]]

\* addAnalysisRecord: {status: 'completed', ...record} appended to records
addAnalysisRecord(store, id, record) ==
  [j \in DOMAIN store |->
     IF j = id
       THEN [store[j] EXCEPT !.records = Append(store[j].records, record)]
       ELSE store[j]]

\* setAnalysisTotalRecords with a fault: the pool is not set to the total
setAnalysisTotalRecordsNoPool(store, id, total) ==
  [j \in DOMAIN store |->
     IF j = id
       THEN [store[j] EXCEPT !.totalRecords = total, !.processedRecords = 0]
       ELSE store[j]]

\* updateAnalysisRecordCounts via setAnalysisTotalRecords
setAnalysisTotalRecords(store, id, total) ==
  [j \in DOMAIN store |->
     IF j = id
       THEN [store[j] EXCEPT !.totalRecords = total, !.poolRecords = total,
                             !.processedRecords = 0]
       ELSE store[j]]

Max0(x) == IF x < 0 THEN 0 ELSE x

\* incrementProcessedRecords with a fault: the pool is decremented, the processed
\* count is not written back
incrementPoolOnly(store, id) ==
  IF HasAnalysis(store, id)
    THEN [store EXCEPT ![id].poolRecords = Max0(store[id].poolRecords - 1)]
    ELSE store

\* incrementProcessedRecords: nothing when the job is not found
incrementProcessedRecords(store, id) ==
  IF HasAnalysis(store, id)
    THEN [store EXCEPT ![id].processedRecords = store[id].processedRecords + 1,
                       ![id].poolRecords = Max0(store[id].poolRecords - 1)]
    ELSE store

\* ------------------------------------------------------------- records
\* what analyzeResume resolves with (performFinalAnalysis): status completed,
\* or status failed with the scoring error when the final call failed
AnalysisResult(k, outcome) ==
  [fullName |-> <<"Candidate", k>>,
   status   |-> IF outcome = "scored" THEN "completed" ELSE "failed",
   error    |-> IF outcome = "scored" THEN "none" ELSE "scoring failed"]

\* the record of the loop's catch block: fullName `Resume ${i + 1}`
FailedRecord(idx) ==
  [fullName |-> <<"Resume", idx + 1>>, status |-> "failed",
   error |-> "LLM analysis failed"]

\* ----------------------------------------------------------------- Init
Init ==
  /\ isProcessing = FALSE
  /\ currentAnalysisId = Null
  /\ analyses = <<>>
  /\ llmConfig \in {"none", "ollama", "unknown"}
  /\ analysisJobs = {}
  /\ pc = [j \in Jobs |-> "idle"]
  /\ totalResumes = [j \in Jobs |-> 0]
  /\ i = [j \in Jobs |-> 0]
  /\ err = [j \in Jobs |-> "none"]
  /\ pendingStops = <<>>
  /\ usedIds = {}
  /\ stopCount = 0
  /\ handled = [j \in Jobs |-> 0]
  /\ invoked = [j \in Jobs |-> FALSE]
  /\ lastOutcome = [j \in Jobs |-> "none"]
  /\ stopCalled = [j \in Jobs |-> FALSE]
  /\ stopAt = [j \in Jobs |-> 0]
  /\ RetryOff
  /\ ParserOff
  /\ ResumeOff
  /\ EnrichOff

\* no batch was ever started: the service and the store as constructed
BatchOff ==
  /\ isProcessing = FALSE
  /\ currentAnalysisId = Null
  /\ analyses = <<>>
  /\ llmConfig = "none"
  /\ analysisJobs = {}
  /\ pc = [j \in Jobs |-> "idle"]
  /\ totalResumes = [j \in Jobs |-> 0]
  /\ i = [j \in Jobs |-> 0]
  /\ err = [j \in Jobs |-> "none"]
  /\ pendingStops = <<>>
  /\ usedIds = {}
  /\ stopCount = 0
  /\ handled = [j \in Jobs |-> 0]
  /\ invoked = [j \in Jobs |-> FALSE]
  /\ lastOutcome = [j \in Jobs |-> "none"]
  /\ stopCalled = [j \in Jobs |-> FALSE]
  /\ stopAt = [j \in Jobs |-> 0]

\* -------------------------------------------------------------- helpers
Min(S) == CHOOSE x \in S : \A y \in S : x <= y

\* the next id Date.now() yields: one no job and no call has used
FreshId == Min(Jobs \ usedIds)

\* a startAnalysis call that was accepted and has not settled
Active(j) == pc[j] \in {"import", "createModel", "analyzing", "delay", "catch"}

Settled(j) == pc[j] \in {"returned", "threw"}

\* loadData: the jobs Home reads back from localStorage, kept as the render uses
\* them: those whose status is 'processing' (the rows with a Stop button)
LoadedJobs(store) == {j \in DOMAIN store : store[j].status = "processing"}

\* ------------------------------------------------- startAnalysis, by await
\* RejectStart with a fault: the already-running throw placed inside the try, so
\* the catch marks the job failed and the finally clears the flag and the id
RejectStartInsideTry(id) ==
  /\ pc' = [pc EXCEPT ![id] = "rejected"]
  /\ err' = [err EXCEPT ![id] = "AlreadyRunning"]
  /\ analyses' = updateAnalysisStatus(analyses, id, "failed")
  /\ isProcessing' = FALSE
  /\ currentAnalysisId' = Null

\* line 633-635: the throw sits before the try, so neither catch nor finally runs
RejectStart(id) ==
  /\ pc' = [pc EXCEPT ![id] = "rejected"]
  /\ err' = [err EXCEPT ![id] = "AlreadyRunning"]
  /\ UNCHANGED <<isProcessing, currentAnalysisId, analyses>>

\* line 637-642: set the flag and the id, enter the try, suspend at await import
AcceptStart(id) ==
  /\ isProcessing' = TRUE
  /\ currentAnalysisId' = id
  /\ pc' = [pc EXCEPT ![id] = "import"]
  /\ UNCHANGED <<err, analyses>>

\* Analysis.jsx handleSubmit: saveAnalysisResult creates the job of a later start
SaveAnalysisResult ==
  /\ UNCHANGED notBatch
  /\ usedIds # Jobs
  /\ analyses' = [j \in DOMAIN analyses \cup {FreshId} |->
                    IF j = FreshId THEN NewAnalysis ELSE analyses[j]]
  /\ usedIds' = usedIds \cup {FreshId}
  /\ UNCHANGED <<isProcessing, currentAnalysisId, llmConfig, analysisJobs, pc,
                 totalResumes, i, err, pendingStops, stopCount, handled,
                 invoked, lastOutcome, stopCalled, stopAt>>

\* startAnalysis(analysisId, extractedResumeData) up to its first await; the id
\* is a saved job's, or one no job was ever saved under
StartAnalysis(id, n) ==
  /\ UNCHANGED notBatch
  /\ pc[id] = "idle"
  /\ \/ HasAnalysis(analyses, id)
     \/ usedIds # Jobs /\ id = FreshId
  /\ usedIds' = usedIds \cup {id}
  /\ totalResumes' = [totalResumes EXCEPT ![id] = n]
  /\ IF isProcessing THEN RejectStart(id) ELSE AcceptStart(id)
  /\ stopAt' = [j \in Jobs |-> IF Active(j) THEN 0 ELSE stopAt[j]]
  /\ UNCHANGED <<llmConfig, analysisJobs, i, pendingStops, stopCount, handled,
                 invoked, lastOutcome, stopCalled>>

\* line 643-656: job lookup, configuration lookup, createChatModel called
StartAfterImport(id) ==
  /\ UNCHANGED notBatch
  /\ pc[id] = "import"
  /\ IF ~HasAnalysis(analyses, id)
       THEN /\ err' = [err EXCEPT ![id] = "NotFound"]
            /\ pc' = [pc EXCEPT ![id] = "catch"]
       ELSE IF llmConfig = "none"
         THEN /\ err' = [err EXCEPT ![id] = "NoConfig"]
              /\ pc' = [pc EXCEPT ![id] = "catch"]
         ELSE /\ pc' = [pc EXCEPT ![id] = "createModel"]
              /\ UNCHANGED err
  /\ UNCHANGED <<isProcessing, currentAnalysisId, analyses, llmConfig,
                 analysisJobs, totalResumes, i, pendingStops, usedIds,
                 stopCount, handled, invoked, lastOutcome, stopCalled, stopAt>>

\* llmFactory createChatModel: the default case of the switch throws
SupportedProvider(provider) == provider = "ollama"

\* EmptyInput with a fault: the length test never fires
EmptyInputUnchecked(n) == n < 0

\* line 659: !extractedResumeData || extractedResumeData.length === 0
EmptyInput(n) == n = 0

\* LoopGuard with a fault: the stop check at the top of the body is missing
LoopGuardNoStopCheck(idx, n) == idx < n

\* line 667-669: the for condition and the stop check at the top of the body
LoopGuard(idx, n) == idx < n /\ isProcessing

\* RunLoop with a fault: no finally block, the flag and the id stay set when
\* the loop is left
RunLoopKeepsFlag(id, store, idx) ==
  /\ i' = [i EXCEPT ![id] = idx]
  /\ IF LoopGuard(idx, totalResumes[id])
       THEN /\ analyses' = store
            /\ pc' = [pc EXCEPT ![id] = "analyzing"]
            /\ UNCHANGED <<isProcessing, currentAnalysisId>>
       ELSE /\ analyses' = updateAnalysisStatus(store, id, "completed")
            /\ pc' = [pc EXCEPT ![id] = "returned"]
            /\ UNCHANGED <<isProcessing, currentAnalysisId>>

\* line 667-711 from the top of iteration idx: either analyzeResume is called and
\* the call suspends, or the loop is left, the job is marked completed and the
\* finally block clears the flag and the id
RunLoop(id, store, idx) ==
  /\ i' = [i EXCEPT ![id] = idx]
  /\ IF LoopGuard(idx, totalResumes[id])
       THEN /\ analyses' = store
            /\ pc' = [pc EXCEPT ![id] = "analyzing"]
            /\ UNCHANGED <<isProcessing, currentAnalysisId>>
       ELSE /\ analyses' = updateAnalysisStatus(store, id, "completed")
            /\ pc' = [pc EXCEPT ![id] = "returned"]
            /\ isProcessing' = FALSE
            /\ currentAnalysisId' = Null

\* line 656-667: createChatModel settles, empty-input check, total set, loop entered
StartAfterModel(id) ==
  /\ UNCHANGED notBatch
  /\ pc[id] = "createModel"
  /\ IF ~SupportedProvider(llmConfig)
       THEN /\ err' = [err EXCEPT ![id] = "Unsupported"]
            /\ pc' = [pc EXCEPT ![id] = "catch"]
            /\ UNCHANGED <<isProcessing, currentAnalysisId, analyses, i>>
       ELSE IF EmptyInput(totalResumes[id])
         THEN /\ err' = [err EXCEPT ![id] = "NoData"]
              /\ pc' = [pc EXCEPT ![id] = "catch"]
              /\ UNCHANGED <<isProcessing, currentAnalysisId, analyses, i>>
         ELSE /\ RunLoop(id, setAnalysisTotalRecords(analyses, id, totalResumes[id]), 0)
              /\ UNCHANGED err
  /\ UNCHANGED <<llmConfig, analysisJobs, totalResumes, pendingStops, usedIds,
                 stopCount, handled, invoked, lastOutcome, stopCalled, stopAt>>

\* ResumeCatch with a fault: a resume's error fails the whole job
ResumeCatchFailsJob(store, id, idx) ==
  updateAnalysisStatus(
    incrementProcessedRecords(addAnalysisRecord(store, id, FailedRecord(idx)), id),
    id, "failed")

\* ResumeCatch with a fault: the failed record is appended but not counted
ResumeCatchNoCount(store, id, idx) ==
  addAnalysisRecord(store, id, FailedRecord(idx))

\* line 688-696: the loop's catch block
ResumeCatch(store, id, idx) ==
  incrementProcessedRecords(addAnalysisRecord(store, id, FailedRecord(idx)), id)

\* line 677-697: analyzeResume settles.  It resolves with the record of
\* performFinalAnalysis (scored, or failed when the scoring call failed), or it
\* rejects (structuredData null: a TypeError before any model call)
AnalyzeSettled(id, outcome) ==
  /\ UNCHANGED notBatch
  /\ pc[id] = "analyzing"
  /\ handled' = [handled EXCEPT ![id] = @ + 1]
  /\ lastOutcome' = [lastOutcome EXCEPT ![id] = outcome]
  /\ IF outcome = "threw"
       THEN /\ RunLoop(id, ResumeCatch(analyses, id, i[id]), i[id] + 1)
            /\ UNCHANGED invoked
       ELSE /\ analyses' = incrementProcessedRecords(
                  addAnalysisRecord(analyses, id, AnalysisResult(i[id] + 1, outcome)), id)
            /\ pc' = [pc EXCEPT ![id] = "delay"]
            /\ invoked' = [invoked EXCEPT ![id] = TRUE]
            /\ UNCHANGED <<isProcessing, currentAnalysisId, i>>
  /\ UNCHANGED <<llmConfig, analysisJobs, totalResumes, err, pendingStops,
                 usedIds, stopCount, stopCalled, stopAt>>

\* line 686: delay(500) settles, i++, next iteration
DelayDone(id) ==
  /\ UNCHANGED notBatch
  /\ pc[id] = "delay"
  /\ RunLoop(id, analyses, i[id] + 1)
  /\ UNCHANGED <<llmConfig, analysisJobs, totalResumes, err, pendingStops,
                 usedIds, stopCount, handled, invoked, lastOutcome, stopCalled,
                 stopAt>>

\* OuterCatch with a fault: the error is rethrown without marking the job
OuterCatchNoMark(store, id) == store

\* line 706: the outer catch marks the job failed
OuterCatch(store, id) == updateAnalysisStatus(store, id, "failed")

\* line 703-711: outer catch after its await import, rethrow, finally
CatchAfterImport(id) ==
  /\ UNCHANGED notBatch
  /\ pc[id] = "catch"
  /\ analyses' = OuterCatch(analyses, id)
  /\ isProcessing' = FALSE
  /\ currentAnalysisId' = Null
  /\ pc' = [pc EXCEPT ![id] = "threw"]
  /\ UNCHANGED <<llmConfig, analysisJobs, totalResumes, i, err, pendingStops,
                 usedIds, stopCount, handled, invoked, lastOutcome, stopCalled,
                 stopAt>>

\* ------------------------------------------------------------ stopAnalysis
\* line 715-717: flag cleared; with a current id the call suspends at await import
StopSync ==
  /\ isProcessing' = FALSE
  /\ pendingStops' = IF currentAnalysisId # Null
                       THEN Append(pendingStops, currentAnalysisId)
                       ELSE pendingStops
  /\ stopCount' = stopCount + 1
  /\ stopCalled' = [j \in Jobs |-> stopCalled[j] \/ Active(j)]
  /\ stopAt' = [j \in Jobs |-> IF pc[j] = "analyzing" THEN i[j] + 1 ELSE stopAt[j]]

\* aiAnalysisService.stopAnalysis() up to its await
StopAnalysis ==
  /\ UNCHANGED notBatch
  /\ stopCount < MaxStops
  /\ StopSync
  /\ UNCHANGED <<currentAnalysisId, analyses, llmConfig, analysisJobs, pc,
                 totalResumes, i, err, usedIds, handled, invoked, lastOutcome>>

\* line 718: after the await, this.currentAnalysisId is read again
StopAfterImport ==
  /\ UNCHANGED notBatch
  /\ pendingStops # <<>>
  /\ pendingStops' = Tail(pendingStops)
  /\ analyses' = updateAnalysisStatus(analyses, currentAnalysisId, "stopped")
  /\ UNCHANGED <<isProcessing, currentAnalysisId, llmConfig, analysisJobs, pc,
                 totalResumes, i, err, usedIds, stopCount, handled, invoked,
                 lastOutcome, stopCalled, stopAt>>

\* --------------------------------------------------------------- dashboard
\* Home: setInterval(loadData, 2000)
LoadData ==
  /\ UNCHANGED notBatch
  /\ analysisJobs # LoadedJobs(analyses)
  /\ analysisJobs' = LoadedJobs(analyses)
  /\ UNCHANGED <<isProcessing, currentAnalysisId, analyses, llmConfig, pc,
                 totalResumes, i, err, pendingStops, usedIds, stopCount,
                 handled, invoked, lastOutcome, stopCalled, stopAt>>

\* Home.handleStopJob: the Stop button is rendered for a job the last loadData
\* saw as processing; stopAnalysis() is not awaited, the status is written
\* straight away and the list is reloaded
HandleStopJob(id) ==
  /\ UNCHANGED notBatch
  /\ stopCount < MaxStops
  /\ id \in analysisJobs
  /\ StopSync
  /\ analyses' = updateAnalysisStatus(analyses, id, "stopped")
  /\ analysisJobs' = LoadedJobs(analyses')
  /\ UNCHANGED <<currentAnalysisId, llmConfig, pc, totalResumes, i, err,
                 usedIds, handled, invoked, lastOutcome>>

\* ------------------------------------------------------------------- Next
Outcomes == {"scored", "scoringFailed", "threw"}

Next ==
  \/ SaveAnalysisResult
  \/ \E id \in Jobs, n \in 0..MaxResumes : StartAnalysis(id, n)
  \/ \E id \in Jobs : StartAfterImport(id)
  \/ \E id \in Jobs : StartAfterModel(id)
  \/ \E id \in Jobs, outcome \in Outcomes : AnalyzeSettled(id, outcome)
  \/ \E id \in Jobs : DelayDone(id)
  \/ \E id \in Jobs : CatchAfterImport(id)
  \/ StopAnalysis
  \/ StopAfterImport
  \/ LoadData
  \/ \E id \in Jobs : HandleStopJob(id)

Spec == Init /\ [][Next]_vars

\* ---------------------------------------------------------------- fairness
\* The service alone, without the dashboard: jobs are saved, started and
\* stopped through the service (the dashboard's stop handler acts on the
\* service through the same stopAnalysis).
ServiceNext ==
  \/ SaveAnalysisResult
  \/ \E id \in Jobs, n \in 0..MaxResumes : StartAnalysis(id, n)
  \/ \E id \in Jobs : StartAfterImport(id)
  \/ \E id \in Jobs : StartAfterModel(id)
  \/ \E id \in Jobs, outcome \in Outcomes : AnalyzeSettled(id, outcome)
  \/ \E id \in Jobs : DelayDone(id)
  \/ \E id \in Jobs : CatchAfterImport(id)
  \/ StopAnalysis
  \/ StopAfterImport

\* Every await of a startAnalysis call settles: the dynamic import, the
\* createChatModel promise, the 500 ms timer, and analyzeResume, whose model
\* invocations all return or raise and whose retries are bounded.
CallFairness(id) ==
  /\ WF_vars(StartAfterImport(id))
  /\ WF_vars(StartAfterModel(id))
  /\ WF_vars(\E outcome \in Outcomes : AnalyzeSettled(id, outcome))
  /\ WF_vars(DelayDone(id))
  /\ WF_vars(CatchAfterImport(id))

FairSpec == Init /\ [][ServiceNext]_vars /\ \A id \in Jobs : CallFairness(id)

TypeOK ==
  /\ isProcessing \in BOOLEAN
  /\ currentAnalysisId \in Jobs \cup {Null}
  /\ DOMAIN analyses \subseteq Jobs
  /\ \A j \in DOMAIN analyses :
       /\ analyses[j].status \in {"processing"} \cup Terminal
       /\ analyses[j].processedRecords \in 0..MaxResumes
       /\ analyses[j].poolRecords \in 0..MaxResumes
       /\ Len(analyses[j].records) <= MaxResumes
  /\ \A j \in Jobs : i[j] \in 0..MaxResumes

\* ============================================== executeWithRetry, by await
\* the errors chain.invoke may reject with
ErrorKinds == {"timeout", "network", "badStatus"}

BaseDelayMs == 1000

\* BackoffDelay with a fault: the exponent is the attempt number itself
BackoffDelayFromTwo(k) == 2^k * BaseDelayMs

\* line 401: Math.pow(2, attempt - 1) * 1000
BackoffDelay(k) == 2^(k - 1) * BaseDelayMs

\* LoopCondition with a fault: one attempt too many
LoopConditionOneMore(a, m) == a <= m + 1

\* line 389: attempt <= maxAttempts
LoopCondition(a, m) == a <= m

\* line 399: a timer is set only when another attempt is to follow
RetryFollows(a, m) == a < m

\* line 389-392, 409: attempt++ and the loop test; the next chain.invoke is
\* issued, or the loop is left and lastError is thrown
NextIteration(a, e) ==
  /\ attempt' = a
  /\ IF LoopCondition(a, maxAttempts)
       THEN /\ retryPc' = "invoking"
            /\ invocations' = invocations + 1
            /\ UNCHANGED thrown
       ELSE /\ retryPc' = "threw"
            /\ thrown' = e
            /\ UNCHANGED invocations

\* executeWithRetry(chain, input, maxAttempts) up to its first await
RetryInit ==
  /\ BatchOff
  /\ EnrichOff
  /\ ParserOff
  /\ ResumeOff
  /\ maxAttempts \in 1..MaxAttemptsBound
  /\ attempt = 1
  /\ lastError = Null
  /\ retryPc = "invoking"
  /\ retryResult = Null
  /\ thrown = Null
  /\ invocations = 1
  /\ errors = <<>>
  /\ delays = <<>>

\* line 392-394: chain.invoke resolves and its result is returned
ChainResolves ==
  /\ retryPc = "invoking"
  /\ retryResult' = <<"result", attempt>>
  /\ retryPc' = "returned"
  /\ UNCHANGED <<maxAttempts, attempt, lastError, thrown, invocations, errors,
                 delays>>
  /\ UNCHANGED notRetry

\* line 395-405: the catch block of the loop: lastError is set; a timer is set
\* when another attempt follows, otherwise the loop goes on to attempt++ at once
RejectStep(e) ==
  /\ retryPc = "invoking"
  /\ lastError' = <<e, attempt>>
  /\ errors' = Append(errors, <<e, attempt>>)
  /\ IF RetryFollows(attempt, maxAttempts)
       THEN /\ delays' = Append(delays, BackoffDelay(attempt))
            /\ retryPc' = "waiting"
            /\ UNCHANGED <<attempt, thrown, invocations>>
       ELSE /\ NextIteration(attempt + 1, lastError')
            /\ UNCHANGED delays
  /\ UNCHANGED <<maxAttempts, retryResult>>

\* chain.invoke rejects with e
ChainRejects(e) ==
  /\ RejectStep(e)
  /\ UNCHANGED notRetry

\* line 403: the timer fires, attempt++, next iteration
TimerStep ==
  /\ retryPc = "waiting"
  /\ NextIteration(attempt + 1, lastError)
  /\ UNCHANGED <<maxAttempts, lastError, retryResult, errors, delays>>

TimerFires ==
  /\ TimerStep
  /\ UNCHANGED notRetry

RetryNext ==
  \/ ChainResolves
  \/ \E e \in ErrorKinds : ChainRejects(e)
  \/ TimerFires

RetrySpec == RetryInit /\ [][RetryNext]_allVars

\* ==================================================== texts and JSON.parse
\* A text is a string; Ch(s, p) is its p-th character, "" outside the text.
Ch(s, p) == IF p >= 1 /\ p <= Len(s) THEN SubSeq(s, p, p) ELSE ""

\* s.slice(p - 1, q): the characters p..q, "" when there are none
Slice(s, p, q) == IF p <= q THEN SubSeq(s, p, q) ELSE ""

\* the characters p.. to the end
From(s, p) == Slice(s, p, Len(s))

\* \s of a regular expression, and JSON whitespace, over the characters used
IsSpace(c) == c \in {" ", "\n", "\t", "\r"}

Digits == {"0", "1", "2", "3", "4", "5", "6", "7", "8", "9"}

Letters ==
  {"a", "b", "c", "d", "e", "f", "g", "h", "i", "j", "k", "l", "m", "n", "o",
   "p", "q", "r", "s", "t", "u", "v", "w", "x", "y", "z", "A", "B", "C", "D",
   "E", "F", "G", "H", "I", "J", "K", "L", "M", "N", "O", "P", "Q", "R", "S",
   "T", "U", "V", "W", "X", "Y", "Z"}

\* the first position from p on that holds no whitespace
RECURSIVE SkipSpace(_, _)
SkipSpace(s, p) == IF IsSpace(Ch(s, p)) THEN SkipSpace(s, p + 1) ELSE p

\* the first position from p on that holds no digit
RECURSIVE SkipDigits(_, _)
SkipDigits(s, p) == IF Ch(s, p) \in Digits THEN SkipDigits(s, p + 1) ELSE p

\* s.trim()
RECURSIVE TrimEnd(_)
TrimEnd(s) ==
  IF s # "" /\ IsSpace(Ch(s, Len(s))) THEN TrimEnd(Slice(s, 1, Len(s) - 1)) ELSE s

Trim(s) == TrimEnd(From(s, SkipSpace(s, 1)))

\* s.startsWith(w, p - 1)
StartsAt(s, p, w) == p + Len(w) - 1 <= Len(s) /\ SubSeq(s, p, p + Len(w) - 1) = w

\* s.indexOf(w, p - 1) as a position, 0 when there is none
RECURSIVE IndexFrom(_, _, _)
IndexFrom(s, p, w) ==
  IF p + Len(w) - 1 > Len(s) THEN 0
  ELSE IF StartsAt(s, p, w) THEN p
  ELSE IndexFrom(s, p + 1, w)

\* s.lastIndexOf(c) as a position, searched downwards from p, 0 when there is none
RECURSIVE LastIndexFrom(_, _, _)
LastIndexFrom(s, p, c) ==
  IF p < 1 THEN 0
  ELSE IF Ch(s, p) = c THEN p
  ELSE LastIndexFrom(s, p - 1, c)

\* Values of JSON.parse: <<"obj", members>> with members a sequence of
\* <<key, value>>, <<"arr", elements>>, <<"str", text>>, <<"num", literal>>,
\* <<"lit", "true" | "false" | "null">>.
ParseFail == [ok |-> FALSE, val |-> <<"none">>, pos |-> 0]

ParseOk(v, p) == [ok |-> TRUE, val |-> v, pos |-> p]

\* a member set on an object: a repeated key keeps its place, takes the new value
PutMember(members, k, v) ==
  IF \E n \in 1..Len(members) : members[n][1] = k
    THEN [n \in 1..Len(members) |->
            IF members[n][1] = k THEN <<k, v>> ELSE members[n]]
    ELSE Append(members, <<k, v>>)

SimpleEscapes == {"\"", "\\", "/", "b", "f", "n", "r", "t"}

\* the position of the quote closing the string whose content starts at p; 0
\* when a control character, a bad escape or the end of the text comes first
\* (\u escapes are not in the texts modelled)
RECURSIVE StringEnd(_, _)
StringEnd(s, p) ==
  LET c == Ch(s, p) IN
  IF c = "" \/ c \in {"\n", "\t", "\r"} THEN 0
  ELSE IF c = "\"" THEN p
  ELSE IF c = "\\"
    THEN IF Ch(s, p + 1) \in SimpleEscapes THEN StringEnd(s, p + 2) ELSE 0
  ELSE StringEnd(s, p + 1)

\* a string literal at p (s[p] is the opening quote)
ParseString(s, p) ==
  LET q == StringEnd(s, p + 1) IN
  IF q = 0 THEN ParseFail ELSE ParseOk(<<"str", Slice(s, p + 1, q - 1)>>, q + 1)

\* a number at p: -? (0 | [1-9][0-9]*) (. [0-9]+)? ([eE] [+-]? [0-9]+)?
ParseNumber(s, p) ==
  LET i0 == IF Ch(s, p) = "-" THEN p + 1 ELSE p
      i1 == IF Ch(s, i0) = "0" THEN i0 + 1 ELSE SkipDigits(s, i0)
      f0 == IF Ch(s, i1) = "." THEN SkipDigits(s, i1 + 1) ELSE i1
      fracOk == Ch(s, i1) # "." \/ f0 > i1 + 1
      e0 == IF Ch(s, f0) \in {"e", "E"}
              THEN IF Ch(s, f0 + 1) \in {"+", "-"} THEN f0 + 2 ELSE f0 + 1
              ELSE f0
      e1 == IF Ch(s, f0) \in {"e", "E"} THEN SkipDigits(s, e0) ELSE f0
      expOk == Ch(s, f0) \notin {"e", "E"} \/ e1 > e0
  IN IF i1 = i0 \/ ~fracOk \/ ~expOk
       THEN ParseFail
       ELSE ParseOk(<<"num", Slice(s, p, e1 - 1)>>, e1)

RECURSIVE ParseValue(_, _)
RECURSIVE ParseMembers(_, _, _)
RECURSIVE ParseElements(_, _, _)

\* the members of an object from p on (a key is expected at p)
ParseMembers(s, p, members) ==
  IF Ch(s, p) # "\"" THEN ParseFail
  ELSE LET k == ParseString(s, p) IN
    IF ~k.ok THEN ParseFail
    ELSE LET c == SkipSpace(s, k.pos) IN
      IF Ch(s, c) # ":" THEN ParseFail
      ELSE LET v == ParseValue(s, c + 1) IN
        IF ~v.ok THEN ParseFail
        ELSE LET r == SkipSpace(s, v.pos)
                 put == PutMember(members, k.val[2], v.val)
             IN IF Ch(s, r) = "}" THEN ParseOk(<<"obj", put>>, r + 1)
                ELSE IF Ch(s, r) = "," THEN ParseMembers(s, SkipSpace(s, r + 1), put)
                ELSE ParseFail

\* the elements of an array from p on (a value is expected at p)
ParseElements(s, p, elements) ==
  LET v == ParseValue(s, p) IN
  IF ~v.ok THEN ParseFail
  ELSE LET r == SkipSpace(s, v.pos)
           put == Append(elements, v.val)
       IN IF Ch(s, r) = "]" THEN ParseOk(<<"arr", put>>, r + 1)
          ELSE IF Ch(s, r) = "," THEN ParseElements(s, r + 1, put)
          ELSE ParseFail

\* a JSON value at p, leading whitespace skipped
ParseValue(s, p) ==
  LET q == SkipSpace(s, p)
      c == Ch(s, q)
  IN IF c = "{"
       THEN LET m == SkipSpace(s, q + 1) IN
            IF Ch(s, m) = "}" THEN ParseOk(<<"obj", <<>>>>, m + 1)
            ELSE ParseMembers(s, m, <<>>)
     ELSE IF c = "["
       THEN LET m == SkipSpace(s, q + 1) IN
            IF Ch(s, m) = "]" THEN ParseOk(<<"arr", <<>>>>, m + 1)
            ELSE ParseElements(s, m, <<>>)
     ELSE IF c = "\"" THEN ParseString(s, q)
     ELSE IF c = "-" \/ c \in Digits THEN ParseNumber(s, q)
     ELSE IF StartsAt(s, q, "true") THEN ParseOk(<<"lit", "true">>, q + 4)
     ELSE IF StartsAt(s, q, "false") THEN ParseOk(<<"lit", "false">>, q + 5)
     ELSE IF StartsAt(s, q, "null") THEN ParseOk(<<"lit", "null">>, q + 4)
     ELSE ParseFail

\* JSON.parse(s): ok with the value, or not ok where JSON.parse throws
JsonParse(s) ==
  LET v == ParseValue(s, 1) IN
  IF v.ok /\ SkipSpace(s, v.pos) = Len(s) + 1
    THEN [ok |-> TRUE, val |-> v.val]
    ELSE [ok |-> FALSE, val |-> <<"none">>]

\* the truth value JavaScript gives a parsed value
Truthy(v) ==
  IF v[1] \in {"obj", "arr"} THEN TRUE
  ELSE IF v[1] = "str" THEN v[2] # ""
  ELSE IF v[1] = "lit" THEN v[2] = "true"
  ELSE IF v[1] = "num"
    THEN \E n \in 1..Len(v[2]) :
           /\ Ch(v[2], n) \in Digits \ {"0"}
           /\ \A m \in 1..n : Ch(v[2], m) \notin {"e", "E"}
  ELSE FALSE

\* ============================================= pdfExtractionService: normalizer
\* a text-or-null result: null, or a string
NullText == [null |-> TRUE, text |-> ""]

SomeText(t) == [null |-> FALSE, text |-> t]

\* !x of JavaScript for a text-or-null
Falsy(x) == x.null \/ x.text = ""

\* the code fence: three back quotes, a back quote being written ~ in the texts
\* of this module (no parser and no pattern of the source gives either
\* character a meaning of its own)
Fence == "~~~"

\* /json/i at p
JsonTagAt(s, p) ==
  /\ Ch(s, p) \in {"j", "J"}
  /\ Ch(s, p + 1) \in {"s", "S"}
  /\ Ch(s, p + 2) \in {"o", "O"}
  /\ Ch(s, p + 3) \in {"n", "N"}

\* \s*\n([\s\S]*?)~~~ matched at p: the greedy \s* gives back to the last line
\* feed of the whitespace run at p, the lazy group runs to the next fence
FenceBody(s, p) ==
  LET b  == SkipSpace(s, p)
      nl == LastIndexFrom(s, b - 1, "\n")
      c  == IF nl >= p THEN IndexFrom(s, nl + 1, Fence) ELSE 0
  IN IF nl >= p /\ c # 0
       THEN [found |-> TRUE, group |-> Slice(s, nl + 1, c - 1)]
       ELSE [found |-> FALSE, group |-> ""]

\* /~~~\s*json\s*\n([\s\S]*?)~~~/i anchored at p
JsonTaggedAt(s, p) ==
  LET t == SkipSpace(s, p + 3) IN
  IF StartsAt(s, p, Fence) /\ JsonTagAt(s, t)
    THEN FenceBody(s, t + 4)
    ELSE [found |-> FALSE, group |-> ""]

\* /~~~\s*\n([\s\S]*?)~~~/i anchored at p
AnyTaggedAt(s, p) ==
  IF StartsAt(s, p, Fence)
    THEN FenceBody(s, p + 3)
    ELSE [found |-> FALSE, group |-> ""]

\* text.match(jsonTagged): the leftmost match from p on
RECURSIVE MatchJsonTagged(_, _)
MatchJsonTagged(s, p) ==
  IF p > Len(s) THEN [found |-> FALSE, group |-> ""]
  ELSE IF JsonTaggedAt(s, p).found THEN JsonTaggedAt(s, p)
  ELSE MatchJsonTagged(s, p + 1)

\* text.match(anyTagged): the leftmost match from p on
RECURSIVE MatchAnyTagged(_, _)
MatchAnyTagged(s, p) ==
  IF p > Len(s) THEN [found |-> FALSE, group |-> ""]
  ELSE IF AnyTaggedAt(s, p).found THEN AnyTaggedAt(s, p)
  ELSE MatchAnyTagged(s, p + 1)

\* line 695-704
extractFencedJson(text, preferJsonTag) ==
  IF text = "" THEN NullText
  ELSE LET match == IF preferJsonTag /\ MatchJsonTagged(text, 1).found
                      THEN MatchJsonTagged(text, 1)
                      ELSE MatchAnyTagged(text, 1)
       IN IF match.found /\ match.group # ""
            THEN SomeText(Trim(match.group))
            ELSE NullText

\* line 706-713
extractBraceChunk(text) ==
  LET first == IndexFrom(text, 1, "{")
      last  == LastIndexFrom(text, Len(text), "}")
  IN IF first # 0 /\ last # 0 /\ last > first
       THEN SomeText(Slice(text, first, last))
       ELSE NullText

\* .replace(/^~~~[\s\S]*?\n/, '')
StripLeadingFence(s) ==
  LET nl == IndexFrom(s, 4, "\n") IN
  IF StartsAt(s, 1, Fence) /\ nl # 0 THEN From(s, nl + 1) ELSE s

\* .replace(/~~~\s*$/, ''): the leftmost fence followed by whitespace only
RECURSIVE StripTrailingFenceFrom(_, _)
StripTrailingFenceFrom(s, p) ==
  IF p > Len(s) THEN s
  ELSE IF StartsAt(s, p, Fence) /\ SkipSpace(s, p + 3) = Len(s) + 1
    THEN Slice(s, 1, p - 1)
  ELSE StripTrailingFenceFrom(s, p + 1)

\* .replace(/,(\s*[}\]])/g, '$1'), scanning from p
RECURSIVE DropTrailingCommas(_, _)
DropTrailingCommas(s, p) ==
  IF p > Len(s) THEN ""
  ELSE LET q == SkipSpace(s, p + 1) IN
    IF Ch(s, p) = "," /\ Ch(s, q) \in {"}", "]"}
      THEN Slice(s, p + 1, q) \o DropTrailingCommas(s, q + 1)
      ELSE Ch(s, p) \o DropTrailingCommas(s, p + 1)

\* the quote closing [^'\n\r]* from p on, 0 when a line end or the text end
\* comes first
RECURSIVE SingleQuoteEnd(_, _)
SingleQuoteEnd(s, p) ==
  LET c == Ch(s, p) IN
  IF c = "" \/ c \in {"\n", "\r"} THEN 0
  ELSE IF c = "'" THEN p
  ELSE SingleQuoteEnd(s, p + 1)

\* .replace(/([,{]\s*)'([^'\n\r]+?)'\s*:/g, '$1"$2":'), scanning from p
RECURSIVE QuoteSingleKeys(_, _)
QuoteSingleKeys(s, p) ==
  IF p > Len(s) THEN ""
  ELSE LET a == SkipSpace(s, p + 1)
           e == IF Ch(s, a) = "'" THEN SingleQuoteEnd(s, a + 1) ELSE 0
           c == SkipSpace(s, e + 1)
       IN IF Ch(s, p) \in {",", "{"} /\ e > a + 1 /\ Ch(s, c) = ":"
            THEN Slice(s, p, a - 1) \o "\"" \o Slice(s, a + 1, e - 1) \o "\":"
                   \o QuoteSingleKeys(s, c + 1)
            ELSE Ch(s, p) \o QuoteSingleKeys(s, p + 1)

\* .replace(/:\s*'([^'\n\r]*?)'/g, ': "$1"'), scanning from p
RECURSIVE QuoteSingleValues(_, _)
QuoteSingleValues(s, p) ==
  IF p > Len(s) THEN ""
  ELSE LET a == SkipSpace(s, p + 1)
           e == IF Ch(s, a) = "'" THEN SingleQuoteEnd(s, a + 1) ELSE 0
       IN IF Ch(s, p) = ":" /\ e # 0
            THEN ": \"" \o Slice(s, a + 1, e - 1) \o "\""
                   \o QuoteSingleValues(s, e + 1)
            ELSE Ch(s, p) \o QuoteSingleValues(s, p + 1)

\* the first position from p on that holds no [A-Za-z0-9_]
RECURSIVE SkipWord(_, _)
SkipWord(s, p) ==
  IF Ch(s, p) \in Letters \cup Digits \cup {"_"} THEN SkipWord(s, p + 1) ELSE p

\* .replace(/([,{]\s*)([A-Za-z0-9_]+)\s*:/g, '$1"$2":'), scanning from p
RECURSIVE QuoteBareKeys(_, _)
QuoteBareKeys(s, p) ==
  IF p > Len(s) THEN ""
  ELSE LET a == SkipSpace(s, p + 1)
           b == SkipWord(s, a)
           c == SkipSpace(s, b)
       IN IF Ch(s, p) \in {",", "{"} /\ b > a /\ Ch(s, c) = ":"
            THEN Slice(s, p, a - 1) \o "\"" \o Slice(s, a, b - 1) \o "\":"
                   \o QuoteBareKeys(s, c + 1)
            ELSE Ch(s, p) \o QuoteBareKeys(s, p + 1)

\* line 728-747; the last replace (line 745) writes back what it matched
sanitizeJsonLike(text) ==
  IF text = "" THEN NullText
  ELSE LET trimmed  == Trim(text)
           unfenced == StripTrailingFenceFrom(StripLeadingFence(trimmed), 1)
           chunk    == extractBraceChunk(unfenced)
           clipped  == IF ~Falsy(chunk) THEN chunk.text ELSE unfenced
           noCommas == DropTrailingCommas(clipped, 1)
           keys     == QuoteSingleKeys(noCommas, 1)
           values   == QuoteSingleValues(keys, 1)
       IN SomeText(QuoteBareKeys(values, 1))

\* a value-or-null result
NullValue == [null |-> TRUE, val |-> <<"none">>]

SomeValue(v) == [null |-> FALSE, val |-> v]

\* line 715-726
tryParseWithSanitization(text) ==
  IF JsonParse(text).ok THEN SomeValue(JsonParse(text).val)
  ELSE LET sanitized == sanitizeJsonLike(text) IN
    IF Falsy(sanitized) THEN NullValue
    ELSE IF JsonParse(sanitized.text).ok
      THEN SomeValue(JsonParse(sanitized.text).val)
      ELSE NullValue

\* if (parsed) of line 657 and 664
Parsed(r) == ~r.null /\ Truthy(r.val)

\* line 677-692: the object the outer catch returns
ExtractionFallback == <<"fallback", "parseExtractionResponse">>

\* ------------------------------------------------ the texts the model returns
MaxTextLen == 3   \* longest text of the exhaustive family

TextAlphabet == {"{", "}", "[", "]", "\"", "'", "a", ":", "1", ","}

\* every text over TextAlphabet of at most n characters
RECURSIVE TextsUpTo(_)
TextsUpTo(n) ==
  IF n = 0 THEN {""}
  ELSE TextsUpTo(n - 1) \cup {t \o c : t \in TextsUpTo(n - 1), c \in TextAlphabet}

\* Scenario C: unquoted keys, single-quoted strings, a trailing comma
ScenarioC == "{fullName: 'Jane', skills: ['a','b',]}"

\* JSON and near-JSON bodies a model answers with
Bodies ==
  {"{\"a\":1}", "{\"a\":1,}", "{a:1}", "{'a':'b'}", "{ 'a' : '', b_1 : [1, ], }",
   "{\"a\":['b']}", "{\"a\":{\"b\":[true,null]},\"a\":\"c\"}", "[1]",
   "[{\"a\":1}]", "0", "null", "\"a\"", "-1.5e+2", "{", "a",
   "{\"a\":1} {\"b\":2}", ScenarioC}

\* the ways the body comes wrapped: bare, in prose, in a fenced block
Wrappings(b) ==
  {b, "Here: " \o b, b \o " ok", " " \o b \o "\n",
   "~~~json\n" \o b \o "\n~~~", "~~~\n" \o b \o "~~~",
   "So: ~~~ JSON \n\n" \o b \o "~~~ end", "~~~json\n~~~" \o b,
   "~~~json\n" \o b, "~~~json\n \n~~~\n~~~\n" \o b \o "\n~~~"}

ModelTexts == TextsUpTo(MaxTextLen) \cup UNION {Wrappings(b) : b \in Bodies}

\* ------------------------------------- parseExtractionResponse, step by step
\* NormCatch with a fault: the outer catch rethrows
NormCatchRethrows == [pc |-> "threw", val |-> <<"none">>]

\* line 675-692: the outer catch returns the fixed object
NormCatch == [pc |-> "returned", val |-> ExtractionFallback]

\* a || b of line 654
OrText(a, b) == IF Falsy(a) THEN b ELSE a

\* parseExtractionResponse(response) called with a text: typeof is 'string',
\* the first step is next
NormInit ==
  /\ BatchOff
  /\ EnrichOff
  /\ RetryOff
  /\ ResumeOff
  /\ response \in ModelTexts
  /\ normPc = "direct"
  /\ normResult = <<"none">>
  /\ normStep = 0
  /\ robustResult = <<"none">>

NormReturn(v, step) ==
  /\ normPc' = "returned"
  /\ normResult' = v
  /\ normStep' = step

NormGoOn(next) ==
  /\ normPc' = next
  /\ UNCHANGED <<normResult, normStep>>

\* line 648-651: 1) direct parse
DirectParse ==
  /\ normPc = "direct"
  /\ IF JsonParse(response).ok
       THEN NormReturn(JsonParse(response).val, 1)
       ELSE NormGoOn("fenced")
  /\ UNCHANGED <<response, robustResult>>
  /\ UNCHANGED notParser

\* line 653-658: 2) fenced code block, tagged json or not
FencedBlock ==
  /\ normPc = "fenced"
  /\ LET fencedJson == OrText(extractFencedJson(response, TRUE),
                              extractFencedJson(response, FALSE))
         parsed == tryParseWithSanitization(fencedJson.text)
     IN IF ~Falsy(fencedJson) /\ Parsed(parsed)
          THEN NormReturn(parsed.val, 2)
          ELSE NormGoOn("brace")
  /\ UNCHANGED <<response, robustResult>>
  /\ UNCHANGED notParser

\* line 660-665: 3) substring between the outermost braces
BraceSubstring ==
  /\ normPc = "brace"
  /\ LET braceChunk == extractBraceChunk(response)
         parsed == tryParseWithSanitization(braceChunk.text)
     IN IF ~Falsy(braceChunk) /\ Parsed(parsed)
          THEN NormReturn(parsed.val, 3)
          ELSE NormGoOn("sanitize")
  /\ UNCHANGED <<response, robustResult>>
  /\ UNCHANGED notParser

\* line 667-675: 4) sanitize the whole text and parse; failing that, throw
SanitizeWhole ==
  /\ normPc = "sanitize"
  /\ LET sanitized == sanitizeJsonLike(response) IN
     IF ~Falsy(sanitized) /\ JsonParse(sanitized.text).ok
       THEN NormReturn(JsonParse(sanitized.text).val, 4)
       ELSE NormGoOn("catch")
  /\ UNCHANGED <<response, robustResult>>
  /\ UNCHANGED notParser

\* line 676-692: the outer catch
NormOuterCatch ==
  /\ normPc = "catch"
  /\ normPc' = NormCatch.pc
  /\ normResult' = NormCatch.val
  /\ normStep' = 5
  /\ UNCHANGED <<response, robustResult>>
  /\ UNCHANGED notParser

\* ------------------------------------- aiAnalysisService: RobustJsonOutputParser
\* the fallbackValue the parser was constructed with
RobustFallback == <<"fallback", "fallbackValue">>

\* line 348-360: text.match(/\{[\s\S]*\}/) runs from the first { to the last }
\* after it; JSON.parse of the match, the fallback when either fails
RobustParse(text) ==
  LET jsonMatch == extractBraceChunk(text) IN
  IF ~jsonMatch.null /\ JsonParse(jsonMatch.text).ok
    THEN JsonParse(jsonMatch.text).val
    ELSE RobustFallback

\* the chain of createRobustChain parses the same model text
RobustParserRuns ==
  /\ robustResult = <<"none">>
  /\ robustResult' = RobustParse(response)
  /\ UNCHANGED <<response, normPc, normResult, normStep>>
  /\ UNCHANGED notParser

NormNext ==
  \/ DirectParse
  \/ FencedBlock
  \/ BraceSubstring
  \/ SanitizeWhole
  \/ NormOuterCatch
  \/ RobustParserRuns

NormSpec == NormInit /\ [][NormNext]_allVars

\* ===================================================== analyzeResume (one call)
Sections == {"personal", "education", "work", "additional"}

\* the sections line 779-783 awaits together
JoinedSections == {"personal", "education", "work"}

PersonalFields ==
  {"fullName", "email", "phone", "address", "linkedin", "github", "website",
   "summary"}

BuiltInToggles == {"skills", "languages", "awards", "publications",
                   "volunteerExperience"}

NoValue == [none |-> TRUE]

\* an array of the structured data, or a value that is no array (undefined, or
\* a string such as the 'N/A' of the extraction fallback)
NotArray == [isArray |-> FALSE, items |-> <<>>]

ArrayOf(items) == [isArray |-> TRUE, items |-> items]

\* Array.isArray(x) ? x : []
ArrayOrEmpty(x) == IF x.isArray THEN x.items ELSE <<>>

\* a || b || 'N/A' on strings, "" standing for an absent or empty one
OrNA(a, b) == IF a # "" THEN a ELSE IF b # "" THEN b ELSE "N/A"

\* resumeData.structuredData: null after a failed PDF extraction (Analysis.jsx
\* line 285-298), otherwise the object of the extraction pass
StructuredDataChoices ==
  {[isNull |-> TRUE]} \cup
  {[isNull |-> FALSE, fullName |-> fn, name |-> nm, email |-> "jane@x.io",
    education |-> ed, workExperience |-> we, skills |-> sk] :
     fn \in {"", "N/A", "Jane"}, nm \in {"", "J. Doe"},
     ed \in {NotArray, ArrayOf(<<>>), ArrayOf(<<"BSc">>)},
     we \in {NotArray, ArrayOf(<<>>), ArrayOf(<<"Acme">>)},
     sk \in {NotArray, ArrayOf(<<"sql">>)}}

\* analysisConfig.resumeFields: undefined, or the toggles switched on and the
\* names of the custom fields
ResumeFieldsChoices ==
  {[defined |-> FALSE, toggles |-> {}, custom |-> {}]} \cup
  {[defined |-> TRUE, toggles |-> t, custom |-> c] :
     t \in {{}, {"skills"}, {"skills", "languages"}}, c \in {{}, {"hobby"}}}

\* line 728-738 (currentRole, undefined unless extracted, is left out)
personalInfoFromExtract(data) ==
  [f \in PersonalFields |->
     IF f = "fullName" THEN OrNA(data.fullName, data.name)
     ELSE IF f = "email" THEN OrNA(data.email, "")
     ELSE "N/A"]

\* line 740-745
educationInfoFromExtract(data) ==
  [education |-> ArrayOrEmpty(data.education), certifications |-> <<>>]

\* line 747-752
workExperienceInfoFromExtract(data) ==
  [workExperience |-> ArrayOrEmpty(data.workExperience), projects |-> <<>>]

\* line 754-772: only the arrays present are copied
additionalFieldsFromExtract(data) ==
  IF data.skills.isArray THEN [skills |-> data.skills.items] ELSE <<>>

FromExtract(data, sec) ==
  IF sec = "personal" THEN personalInfoFromExtract(data)
  ELSE IF sec = "education" THEN educationInfoFromExtract(data)
  ELSE IF sec = "work" THEN workExperienceInfoFromExtract(data)
  ELSE additionalFieldsFromExtract(data)

\* line 775-777: needsPersonal, needsEducation, needsWork
NeedsExtraction(data, sec) ==
  IF sec = "personal"
    THEN personalInfoFromExtract(data).fullName \in {"", "N/A"}
  ELSE IF sec = "education" THEN Len(ArrayOrEmpty(data.education)) = 0
  ELSE IF sec = "work" THEN Len(ArrayOrEmpty(data.workExperience)) = 0
  ELSE FALSE

\* line 787-794
wantsAdditional(fields) ==
  fields.defined /\ (fields.toggles # {} \/ fields.custom # {})

\* line 795
hasAdditional(data) == DOMAIN additionalFieldsFromExtract(data) # {}

\* the keys of the schema and of errorResult: the toggles on, the custom slugs
FieldKeys(fields) == (fields.toggles \cap BuiltInToggles) \cup fields.custom

\* line 906-973: the example-valued schema
AdditionalSchema(fields) ==
  [k \in FieldKeys(fields) |->
     IF k = "skills" THEN <<"JavaScript", "React", "Node.js", "Python">>
     ELSE IF k = "languages"
       THEN <<[language |-> "English", proficiency |-> "Native"],
              [language |-> "Spanish", proficiency |-> "Fluent"]>>
     ELSE IF k \in BuiltInToggles THEN <<[name |-> "example"]>>
     ELSE "Value for " \o k]

\* line 992-1010: errorResult
AdditionalErrorResult(fields) ==
  [k \in FieldKeys(fields) |-> IF k \in BuiltInToggles THEN <<>> ELSE "N/A"]

\* the object the catch block of each extractor returns
CatchValue(sec, fields) ==
  IF sec = "personal" THEN [f \in PersonalFields |-> "N/A"]
  ELSE IF sec = "education" THEN [education |-> <<>>, certifications |-> <<>>]
  ELSE IF sec = "work" THEN [workExperience |-> <<>>, projects |-> <<>>]
  ELSE AdditionalErrorResult(fields)

\* the fallbackValue each extractor hands to createRobustChain (line 822-835,
\* 858-865, 882-889, 976-980)
ParserFallback(sec, fields) ==
  IF sec = "additional" THEN AdditionalSchema(fields) ELSE CatchValue(sec, fields)

\* what the model answered when its text parses: one answer per section
ModelAnswer(sec, fields) ==
  IF sec = "personal"
    THEN [f \in PersonalFields |-> IF f = "fullName" THEN "Ada" ELSE "N/A"]
  ELSE IF sec = "education"
    THEN [education |-> <<"MSc">>, certifications |-> <<"PMP">>]
  ELSE IF sec = "work"
    THEN [workExperience |-> <<"Initech">>, projects |-> <<>>]
  ELSE [k \in FieldKeys(fields) |-> IF k \in BuiltInToggles THEN <<"go">> ELSE "chess"]

\* how executeWithRetry over a chain of createRobustChain ends: the text of an
\* attempt parses, the text of an attempt does not parse (the parser returns its
\* fallbackValue, no error is raised), or chain.invoke rejects on every attempt
CallOutcomes == {"parsed", "unparseable", "invokeFailed"}

\* ExtractorCatch with a fault: the catch block rethrows
ExtractorCatchRethrows(sec, fields) == [state |-> "rejected", val |-> NoValue]

\* line 840-852, 870-876, 894-900, 990-1011: the catch block of an extractor
ExtractorCatch(sec, fields) == [state |-> "settled", val |-> CatchValue(sec, fields)]

\* line 819-1012: how an extractor settles
ExtractorResult(sec, fields, out) ==
  IF out = "parsed" THEN [state |-> "settled", val |-> ModelAnswer(sec, fields)]
  ELSE IF out = "unparseable"
    THEN [state |-> "settled", val |-> ParserFallback(sec, fields)]
  ELSE ExtractorCatch(sec, fields)

\* analyzeResume(resumeData, analysisConfig, model) is called
ResumeInit ==
  /\ BatchOff
  /\ EnrichOff
  /\ RetryOff
  /\ ParserOff
  /\ structuredData \in StructuredDataChoices
  /\ resumeFields \in ResumeFieldsChoices
  /\ resumePc = "called"
  /\ extractor = [sec \in Sections |-> "idle"]
  /\ callOutcome = [sec \in Sections \cup {"synth"} |-> "none"]
  /\ sectionValue = [sec \in Sections |-> NoValue]
  /\ started = [sec \in Sections \cup {"synth"} |-> 0]
  /\ settled = [sec \in Sections \cup {"synth"} |-> 0]
  /\ clock = 0
  /\ analysisResult = NoValue

\* line 801: performFinalAnalysis is called with the four sections
StartSynth(values, at) ==
  /\ sectionValue' = values
  /\ resumePc' = "synth"
  /\ started' = [started EXCEPT !["synth"] = at]

\* line 812-815: the catch of analyzeResume rethrows
ResumeThrows ==
  /\ resumePc' = "threw"
  /\ UNCHANGED <<sectionValue, started>>

\* line 723-783: structuredData is read (a TypeError when it is null), the
\* sections are mapped, and the extractors needed are called inside Promise.all
EnterAnalyzeResume ==
  /\ resumePc = "called"
  /\ clock' = clock + 1
  /\ IF structuredData.isNull
       THEN /\ ResumeThrows
            /\ UNCHANGED extractor
       ELSE /\ resumePc' = "joining"
            /\ extractor' =
                 [sec \in Sections |->
                    IF sec \notin JoinedSections THEN "idle"
                    ELSE IF NeedsExtraction(structuredData, sec) THEN "running"
                    ELSE "resolved"]
            /\ started' =
                 [sec \in Sections \cup {"synth"} |->
                    IF sec \in JoinedSections /\ NeedsExtraction(structuredData, sec)
                      THEN clock' ELSE 0]
            /\ sectionValue' =
                 [sec \in Sections |->
                    IF sec \in JoinedSections /\ ~NeedsExtraction(structuredData, sec)
                      THEN FromExtract(structuredData, sec) ELSE NoValue]
  /\ UNCHANGED <<structuredData, resumeFields, callOutcome, settled, analysisResult>>
  /\ UNCHANGED notResume

\* line 819-901: extractPersonalInfo, extractEducation or extractWorkExperience
\* settles
ExtractorSettles(sec, out) ==
  /\ sec \in JoinedSections
  /\ extractor[sec] = "running"
  /\ clock' = clock + 1
  /\ extractor' = [extractor EXCEPT ![sec] = ExtractorResult(sec, resumeFields, out).state]
  /\ sectionValue' = [sectionValue EXCEPT ![sec] = ExtractorResult(sec, resumeFields, out).val]
  /\ callOutcome' = [callOutcome EXCEPT ![sec] = out]
  /\ settled' = [settled EXCEPT ![sec] = clock']
  /\ UNCHANGED <<structuredData, resumeFields, resumePc, started, analysisResult>>
  /\ UNCHANGED notResume

\* line 779-801: Promise.all settles (it rejects as soon as one member has);
\* additional fields are extracted when wanted and not already there, otherwise
\* the final analysis starts
JoinSettles ==
  /\ resumePc = "joining"
  /\ \/ \E sec \in JoinedSections : extractor[sec] = "rejected"
     \/ \A sec \in JoinedSections : extractor[sec] \in {"settled", "resolved"}
  /\ clock' = clock + 1
  /\ IF \E sec \in JoinedSections : extractor[sec] = "rejected"
       THEN /\ ResumeThrows
            /\ UNCHANGED extractor
       ELSE IF wantsAdditional(resumeFields) /\ ~hasAdditional(structuredData)
         THEN /\ extractor' = [extractor EXCEPT !["additional"] = "running"]
              /\ started' = [started EXCEPT !["additional"] = clock']
              /\ resumePc' = "additional"
              /\ UNCHANGED sectionValue
         ELSE /\ extractor' = [extractor EXCEPT !["additional"] = "resolved"]
              /\ StartSynth([sectionValue EXCEPT !["additional"] =
                               additionalFieldsFromExtract(structuredData)], clock')
  /\ UNCHANGED <<structuredData, resumeFields, callOutcome, settled, analysisResult>>
  /\ UNCHANGED notResume

\* line 797-801, 903-1012: extractAdditionalFields settles and the final
\* analysis starts
AdditionalSettles(out) ==
  /\ resumePc = "additional"
  /\ extractor["additional"] = "running"
  /\ clock' = clock + 2
  /\ extractor' = [extractor EXCEPT
                     !["additional"] = ExtractorResult("additional", resumeFields, out).state]
  /\ callOutcome' = [callOutcome EXCEPT !["additional"] = out]
  /\ settled' = [settled EXCEPT !["additional"] = clock + 1]
  /\ IF extractor'["additional"] = "rejected"
       THEN ResumeThrows
       ELSE StartSynth([sectionValue EXCEPT !["additional"] =
                          ExtractorResult("additional", resumeFields, out).val], clock')
  /\ UNCHANGED <<structuredData, resumeFields, analysisResult>>
  /\ UNCHANGED notResume

\* VerdictFallback with a fault: the chain is built without a fallbackValue, so
\* the parser falls back to the {} of its constructor
VerdictFallbackDefault == <<>>

\* line 1022-1031: the fallbackValue of the final analysis chain
VerdictFallback ==
  [overallScore |-> 0, skillsMatch |-> "Analysis failed",
   experienceMatch |-> "Analysis failed", educationMatch |-> "Analysis failed",
   summary |-> "Analysis failed", strengths |-> "Analysis failed",
   weaknesses |-> "Analysis failed", recommendations |-> "Analysis failed"]

\* the verdict the model answers with when its text parses
ModelVerdict == [overallScore |-> 7, summary |-> "Good match"]

\* { ...a, ...b }: the keys of both, b's value where both have the key
Spread(a, b) ==
  [k \in DOMAIN a \cup DOMAIN b |-> IF k \in DOMAIN b THEN b[k] ELSE a[k]]

\* line 1051-1054, 1062-1065: ...personalInfo, ...educationInfo,
\* ...workExperienceInfo, ...additionalFields
SectionUnion(values) ==
  Spread(Spread(Spread(values["personal"], values["education"]), values["work"]),
         values["additional"])

\* line 1050-1058: the record returned when executeWithRetry resolved
FinalReturn(values, analysis, now) ==
  Spread(Spread(SectionUnion(values), analysis),
         [status |-> "completed", analyzedAt |-> now])

\* FinalCatch with a fault: the sections are left out of the record
FinalCatchDropsSections(values, message, now) ==
  [status |-> "failed", error |-> message, analyzedAt |-> now]

\* line 1059-1070: the record returned by the catch block
FinalCatch(values, message, now) ==
  Spread(SectionUnion(values),
         [status |-> "failed", error |-> message, analyzedAt |-> now])

\* line 1014-1071: the record performFinalAnalysis resolves with
FinalRecord(values, out, now) ==
  IF out = "invokeFailed" THEN FinalCatch(values, "invoke failed", now)
  ELSE FinalReturn(values, IF out = "parsed" THEN ModelVerdict ELSE VerdictFallback,
                   now)

\* line 801-811: performFinalAnalysis settles and analyzeResume returns
SynthSettles(out) ==
  /\ resumePc = "synth"
  /\ clock' = clock + 1
  /\ callOutcome' = [callOutcome EXCEPT !["synth"] = out]
  /\ settled' = [settled EXCEPT !["synth"] = clock']
  /\ analysisResult' = FinalRecord(sectionValue, out, clock')
  /\ resumePc' = "returned"
  /\ UNCHANGED <<structuredData, resumeFields, extractor, sectionValue, started>>
  /\ UNCHANGED notResume

ResumeNext ==
  \/ EnterAnalyzeResume
  \/ \E sec \in JoinedSections, out \in CallOutcomes : ExtractorSettles(sec, out)
  \/ JoinSettles
  \/ \E out \in CallOutcomes : AdditionalSettles(out)
  \/ \E out \in CallOutcomes : SynthSettles(out)

ResumeSpec == ResumeInit /\ [][ResumeNext]_allVars

\* ============================================ performFinalAnalysis (one call)
\* One call of performFinalAnalysis with the retry loop of executeWithRetry and
\* the parser of createRobustChain inside it: each chain.invoke either rejects
\* (the model invocation raised) or the model answered with a text, which
\* RobustJsonOutputParser turns into an object or into its fallbackValue.
DefaultMaxAttempts == 3

\* the texts the model answers the scoring prompt with
VerdictTexts ==
  {"{\"overallScore\": 7, \"summary\": \"Good match\"}",
   "Here is the analysis: {\"overallScore\": 7} Thanks.",
   "~~~json\n{\"overallScore\": 7}\n~~~",
   "{\"overallScore\": 7,}", "{overallScore: 7}",
   "I cannot score this resume.", ""}

\* the members of a parsed object as key -> value (the last value of a key)
ObjectOf(v) ==
  [k \in {v[2][n][1] : n \in 1..Len(v[2])} |->
     v[2][CHOOSE n \in 1..Len(v[2]) : v[2][n][1] = k][2]]

\* what the chain of line 1019-1032 resolves with for a model text: the parsed
\* object, or the fallbackValue of line 1022-1031
AnalysisOf(parsed) ==
  IF parsed[1] = "fallback" THEN VerdictFallback ELSE ObjectOf(parsed)

\* the sections performFinalAnalysis is called with: per section the fallback of
\* its catch block, an answer of the model, or (additional fields) the schema
SynthSectionChoices(fields) ==
  {[sec \in Sections |->
      IF sec = "personal" THEN p
      ELSE IF sec = "education" THEN e
      ELSE IF sec = "work" THEN w
      ELSE a] :
     p \in {CatchValue("personal", fields), ModelAnswer("personal", fields)},
     e \in {CatchValue("education", fields), ModelAnswer("education", fields)},
     w \in {CatchValue("work", fields), ModelAnswer("work", fields)},
     a \in {CatchValue("additional", fields), ModelAnswer("additional", fields),
            ParserFallback("additional", fields)}}

\* performFinalAnalysis(extractedData, model) up to the first chain.invoke
SynthInit ==
  /\ BatchOff
  /\ EnrichOff
  /\ structuredData = [isNull |-> TRUE]
  /\ resumeFields \in ResumeFieldsChoices
  /\ sectionValue \in SynthSectionChoices(resumeFields)
  /\ resumePc = "synth"
  /\ extractor = <<>>
  /\ callOutcome = <<>>
  /\ started = <<>>
  /\ settled = <<>>
  /\ clock = 0
  /\ analysisResult = NoValue
  /\ maxAttempts = DefaultMaxAttempts
  /\ attempt = 1
  /\ lastError = Null
  /\ retryPc = "invoking"
  /\ retryResult = Null
  /\ thrown = Null
  /\ invocations = 1
  /\ errors = <<>>
  /\ delays = <<>>
  /\ response = ""
  /\ normPc = "off"
  /\ normResult = <<"none">>
  /\ normStep = 0
  /\ robustResult = <<"none">>

\* line 392-394, 348-360, 1035-1058: the model answers with a text, the parser
\* resolves, executeWithRetry returns and the record is built
ModelAnswers(text) ==
  /\ resumePc = "synth"
  /\ retryPc = "invoking"
  /\ response' = text
  /\ robustResult' = RobustParse(text)
  /\ retryResult' = <<"result", attempt>>
  /\ retryPc' = "returned"
  /\ clock' = clock + 1
  /\ analysisResult' = FinalReturn(sectionValue, AnalysisOf(robustResult'), clock')
  /\ resumePc' = "returned"
  /\ UNCHANGED <<maxAttempts, attempt, lastError, thrown, invocations, errors,
                 delays>>
  /\ UNCHANGED <<normPc, normResult, normStep>>
  /\ UNCHANGED <<structuredData, resumeFields, extractor, sectionValue,
                 callOutcome, started, settled>>
  /\ UNCHANGED <<vars, enrichVars>>

\* line 395-409, 1059-1070: the model invocation raises; after the last attempt
\* executeWithRetry throws lastError and the catch block builds the record
ModelRaises(e) ==
  /\ resumePc = "synth"
  /\ RejectStep(e)
  /\ clock' = clock + 1
  /\ IF retryPc' = "threw"
       THEN /\ analysisResult' = FinalCatch(sectionValue, thrown'[1], clock')
            /\ resumePc' = "returned"
       ELSE UNCHANGED <<analysisResult, resumePc>>
  /\ UNCHANGED parserVars
  /\ UNCHANGED <<structuredData, resumeFields, extractor, sectionValue,
                 callOutcome, started, settled>>
  /\ UNCHANGED <<vars, enrichVars>>

\* line 403: the backoff timer fires and the next attempt is issued
SynthTimerFires ==
  /\ resumePc = "synth"
  /\ TimerStep
  /\ clock' = clock + 1
  /\ UNCHANGED parserVars
  /\ UNCHANGED <<structuredData, resumeFields, resumePc, extractor, sectionValue,
                 analysisResult, callOutcome, started, settled>>
  /\ UNCHANGED <<vars, enrichVars>>

SynthNext ==
  \/ \E text \in VerdictTexts : ModelAnswers(text)
  \/ \E e \in ErrorKinds : ModelRaises(e)
  \/ SynthTimerFires

SynthSpec == SynthInit /\ [][SynthNext]_allVars

\* ================================================= a batch of one resume
\* startAnalysis(id, [resumeData]) for a saved job with analyzeResume unfolded:
\* the loop's await of line 677 settles when analyzeResume has returned or
\* thrown, and the record appended is the one analyzeResume resolved with.
BatchJob == 1

\* the structured data of the one resume: none (the PDF extraction failed), an
\* object with every section missing, an object with every section present
PipelineDataChoices ==
  {d \in StructuredDataChoices :
     \/ d.isNull
     \/ /\ ~d.isNull
        /\ \/ /\ d.fullName = "" /\ d.name = ""
              /\ d.education = NotArray /\ d.workExperience = NotArray
              /\ d.skills = NotArray
           \/ /\ d.fullName = "Jane" /\ d.name = ""
              /\ d.education = ArrayOf(<<"BSc">>)
              /\ d.workExperience = ArrayOf(<<"Acme">>)
              /\ d.skills = ArrayOf(<<"sql">>)}

\* line 632-642: the job was saved, startAnalysis was accepted for it with one
\* resume and is suspended at its await import
PipelineInit ==
  /\ isProcessing = TRUE
  /\ currentAnalysisId = BatchJob
  /\ analyses = [j \in {BatchJob} |-> NewAnalysis]
  /\ llmConfig = "ollama"
  /\ analysisJobs = {}
  /\ pc = [j \in Jobs |-> IF j = BatchJob THEN "import" ELSE "idle"]
  /\ totalResumes = [j \in Jobs |-> IF j = BatchJob THEN 1 ELSE 0]
  /\ i = [j \in Jobs |-> 0]
  /\ err = [j \in Jobs |-> "none"]
  /\ pendingStops = <<>>
  /\ usedIds = {BatchJob}
  /\ stopCount = 0
  /\ handled = [j \in Jobs |-> 0]
  /\ invoked = [j \in Jobs |-> FALSE]
  /\ lastOutcome = [j \in Jobs |-> "none"]
  /\ stopCalled = [j \in Jobs |-> FALSE]
  /\ stopAt = [j \in Jobs |-> 0]
  /\ RetryOff
  /\ ParserOff
  /\ EnrichOff
  /\ structuredData \in PipelineDataChoices
  /\ resumeFields \in ResumeFieldsChoices
  /\ resumePc = "called"
  /\ extractor = [sec \in Sections |-> "idle"]
  /\ callOutcome = [sec \in Sections \cup {"synth"} |-> "none"]
  /\ sectionValue = [sec \in Sections |-> NoValue]
  /\ started = [sec \in Sections \cup {"synth"} |-> 0]
  /\ settled = [sec \in Sections \cup {"synth"} |-> 0]
  /\ clock = 0
  /\ analysisResult = NoValue

\* how the resume settled, as the loop sees it
SettledAs ==
  IF resumePc = "threw" THEN "threw"
  ELSE IF analysisResult["status"] = "completed" THEN "scored"
  ELSE "scoringFailed"

\* line 677-697: the await of analyzeResume settles; its record, or the record
\* of the loop's catch block, is appended and the count is incremented
ResumeRecorded(id) ==
  /\ UNCHANGED notBatch
  /\ pc[id] = "analyzing"
  /\ resumePc \in {"returned", "threw"}
  /\ handled' = [handled EXCEPT ![id] = @ + 1]
  /\ lastOutcome' = [lastOutcome EXCEPT ![id] = SettledAs]
  /\ IF resumePc = "threw"
       THEN /\ RunLoop(id, ResumeCatch(analyses, id, i[id]), i[id] + 1)
            /\ UNCHANGED invoked
       ELSE /\ analyses' = incrementProcessedRecords(
                  addAnalysisRecord(analyses, id, analysisResult), id)
            /\ pc' = [pc EXCEPT ![id] = "delay"]
            /\ invoked' = [invoked EXCEPT ![id] = TRUE]
            /\ UNCHANGED <<isProcessing, currentAnalysisId, i>>
  /\ UNCHANGED <<llmConfig, analysisJobs, totalResumes, err, pendingStops,
                 usedIds, stopCount, stopCalled, stopAt>>

\* analyzeResume runs while the loop is suspended at line 677
InAnalyzeResume(step) == pc[BatchJob] = "analyzing" /\ step

PipelineNext ==
  \/ StartAfterImport(BatchJob)
  \/ StartAfterModel(BatchJob)
  \/ InAnalyzeResume(EnterAnalyzeResume)
  \/ \E sec \in JoinedSections, out \in CallOutcomes :
       InAnalyzeResume(ExtractorSettles(sec, out))
  \/ InAnalyzeResume(JoinSettles)
  \/ \E out \in CallOutcomes : InAnalyzeResume(AdditionalSettles(out))
  \/ \E out \in CallOutcomes : InAnalyzeResume(SynthSettles(out))
  \/ ResumeRecorded(BatchJob)
  \/ DelayDone(BatchJob)

PipelineSpec == PipelineInit /\ [][PipelineNext]_allVars

\* ============================================= enrichContactFields (one call)
ContactFields == {"email", "linkedin", "github", "website"}

JsNull == <<"lit", "null">>

NA == <<"str", "N/A">>

\* the values a contact field of the parsed object holds
ContactValues == {JsNull, <<"str", "">>, NA, <<"str", "n/a">>, <<"str", "kept">>}

\* the objects parseExtractionResponse hands over: a full name, a skills list,
\* and each contact field absent or holding one of the values
ContactObjects ==
  UNION {{[k \in present \cup {"fullName", "skills"} |->
             IF k = "fullName" THEN <<"str", "Jane">>
             ELSE IF k = "skills" THEN <<"arr", <<"sql">>>>
             ELSE vals[k]] : vals \in [present -> ContactValues]} :
           present \in SUBSET ContactFields}

\* the data argument: null (data || {} gives {}), or one of the objects
ContactDataChoices ==
  {[isNull |-> TRUE, obj |-> <<>>]} \cup
  {[isNull |-> FALSE, obj |-> o] : o \in ContactObjects}

\* extractPrimaryEmail, extractLinkedInUrl, extractGitHubUrl, extractWebsiteUrl:
\* null when the text has no match, otherwise the match
FoundChoices ==
  [ContactFields -> {JsNull, <<"str", "found">>}]

\* line 572: { ...(data || {}) }
CopyOf(data) == IF data.isNull THEN <<>> ELSE data.obj

\* line 579-582: !result.f || result.f === 'N/A'
IsBlank(result, f) ==
  \/ f \notin DOMAIN result
  \/ ~Truthy(result[f])
  \/ result[f] = NA

\* EnrichedValue with a fault: what the text holds always wins
EnrichedValueOverwrites(result, f, found) ==
  IF Truthy(found) THEN found
  ELSE IF f \in DOMAIN result /\ Truthy(result[f]) THEN result[f]
  ELSE NA

\* line 579-582: the value of field f after its if statement
EnrichedValue(result, f, found) ==
  IF ~IsBlank(result, f) THEN result[f]
  ELSE IF Truthy(found) THEN found
  ELSE IF f \in DOMAIN result /\ Truthy(result[f]) THEN result[f]
  ELSE NA

\* line 571-585
enrichContactFields(data, found) ==
  [k \in DOMAIN CopyOf(data) \cup ContactFields |->
     IF k \in ContactFields THEN EnrichedValue(CopyOf(data), k, found[k])
     ELSE CopyOf(data)[k]]

EnrichInit ==
  /\ BatchOff
  /\ RetryOff
  /\ ParserOff
  /\ ResumeOff
  /\ contactData \in ContactDataChoices
  /\ contactFound \in FoundChoices
  /\ enrichPc = "called"
  /\ enrichResult = <<>>

EnrichRuns ==
  /\ enrichPc = "called"
  /\ enrichResult' = enrichContactFields(contactData, contactFound)
  /\ enrichPc' = "returned"
  /\ UNCHANGED <<contactData, contactFound>>
  /\ UNCHANGED <<vars, retryVars, parserVars, resumeVars>>

EnrichNext == EnrichRuns

EnrichSpec == EnrichInit /\ [][EnrichNext]_allVars

\* ================================================================ claims
ActiveCalls == {j \in Jobs : Active(j)}

\* C1: in every interleaving of start() and stop(), at most one accepted
\* startAnalysis call is unsettled at any time.
C1_SingleFlight == Cardinality(ActiveCalls) <= 1

\* C2: a start() made while isProcessing is true throws the already-running
\* error and changes neither isProcessing, currentAnalysisId, any stored job,
\* nor the position of any other call.
C2_RejectedStartChangesNothing ==
  [][\A id \in Jobs :
       (pc[id] = "idle" /\ pc'[id] # "idle" /\ isProcessing)
         => /\ pc'[id] = "rejected"
            /\ err'[id] = "AlreadyRunning"
            /\ isProcessing' = isProcessing
            /\ currentAnalysisId' = currentAnalysisId
            /\ analyses' = analyses
            /\ \A k \in Jobs \ {id} : pc'[k] = pc[k] /\ i'[k] = i[k]]_vars

\* C2 witness: a start was rejected while another call is analysing a resume
C2_Witness ==
  \E id \in Jobs, k \in Jobs :
    /\ pc[id] = "rejected"
    /\ pc[k] = "analyzing"
    /\ isProcessing

\* C3: when stop() was called while the batch was running, the job's status
\* is 'stopped' once start() has returned; 'completed' only without a stop.
C3_StoppedJobEndsStopped ==
  \A j \in Jobs :
    (pc[j] = "returned" /\ HasAnalysis(analyses, j))
      => /\ stopCalled[j] => analyses[j].status = "stopped"
         /\ analyses[j].status = "completed" => ~stopCalled[j]

\* C4: once a job's status is completed, failed or stopped it never changes.
C4_TerminalStatusIsFinal ==
  [][\A j \in DOMAIN analyses :
       analyses[j].status \in Terminal
         => analyses'[j].status = analyses[j].status]_vars

\* C5: after stop() with resume k of N in flight and no later start(), no record
\* beyond resume k is appended, and once start() has returned the job has
\* exactly k records, processedRecords = k and poolRecords = N - k.
C5_StopLetsInFlightFinish ==
  \A j \in Jobs :
    (stopAt[j] # 0 /\ HasAnalysis(analyses, j))
      => /\ Len(analyses[j].records) <= stopAt[j]
         /\ handled[j] <= stopAt[j]
         /\ pc[j] = "returned"
              => /\ Len(analyses[j].records) = stopAt[j]
                 /\ handled[j] = stopAt[j]
                 /\ analyses[j].processedRecords = stopAt[j]
                 /\ analyses[j].poolRecords = totalResumes[j] - stopAt[j]

\* C5 witness: stopped during resume 1 of a longer batch, and start() returned
C5_Witness ==
  \E j \in Jobs :
    /\ pc[j] = "returned"
    /\ stopAt[j] = 1
    /\ totalResumes[j] > 1
    /\ Len(analyses[j].records) = 1

\* C6: the status of a completed or failed job never becomes 'stopped'.
C6_NoRegressionToStopped ==
  [][\A j \in DOMAIN analyses :
       analyses[j].status \in {"completed", "failed"}
         => analyses'[j].status # "stopped"]_vars

\* C7: processedRecords is 0 until the first resume is handled, goes up by
\* exactly 1 with each resume handled (record completed or failed), never goes
\* down, and so equals N exactly when all N resumes have been handled.
C7_ProcessedCountsHandled ==
  /\ [](\A j \in DOMAIN analyses :
          /\ analyses[j].processedRecords = handled[j]
          /\ handled[j] <= totalResumes[j]
          /\ (analyses[j].processedRecords = totalResumes[j])
               <=> (handled[j] = totalResumes[j]))
  /\ [][\A j \in DOMAIN analyses :
          /\ analyses'[j].processedRecords >= analyses[j].processedRecords
          /\ handled'[j] = handled[j] + 1
               => analyses'[j].processedRecords = analyses[j].processedRecords + 1
          /\ handled'[j] = handled[j]
               => analyses'[j].processedRecords = analyses[j].processedRecords]_vars

\* C7 witness: an unstopped batch of MaxResumes resumes, one record failed and
\* one completed, all counted
C7_Witness ==
  \E j \in DOMAIN analyses :
    /\ pc[j] = "returned"
    /\ ~stopCalled[j]
    /\ totalResumes[j] = MaxResumes
    /\ analyses[j].processedRecords = MaxResumes
    /\ \E a, b \in 1..Len(analyses[j].records) :
         /\ analyses[j].records[a].status = "failed"
         /\ analyses[j].records[b].status = "completed"

\* C8: when analyzeResume throws for resume n, exactly the record
\* {fullName: "Resume n", status: failed, error} is appended, the processed
\* count goes up by one, the job is not marked failed, the call does not enter
\* its outer catch, and the loop takes the next resume when there is one and
\* no stop was requested.
C8_ResumeErrorIsIsolated ==
  [][\A j \in DOMAIN analyses :
       (pc[j] = "analyzing" /\ handled'[j] = handled[j] + 1
          /\ lastOutcome'[j] = "threw")
         => /\ analyses'[j].records =
                 Append(analyses[j].records,
                        [fullName |-> <<"Resume", handled[j] + 1>>,
                         status |-> "failed", error |-> "LLM analysis failed"])
            /\ analyses'[j].processedRecords = analyses[j].processedRecords + 1
            /\ analyses'[j].status # "failed"
            /\ pc'[j] \in {"analyzing", "returned"}
            /\ err'[j] = "none"
            /\ (handled[j] + 1 < totalResumes[j] /\ isProcessing)
                 => pc'[j] = "analyzing" /\ i'[j] = i[j] + 1]_vars

\* C8 witness: resume 1 threw, resume 2 was scored, the job is completed
C8_Witness ==
  \E j \in DOMAIN analyses :
    /\ pc[j] = "returned"
    /\ Len(analyses[j].records) = 2
    /\ analyses[j].records[1].fullName = <<"Resume", 1>>
    /\ analyses[j].records[1].status = "failed"
    /\ analyses[j].records[2].status = "completed"
    /\ analyses[j].status = "completed"

\* C9 (as claimed): every failing start(), the already-running rejection
\* included, processes no resume and leaves the job named in the call stored
\* with status 'failed'.
C9_EveryStartFailureMarksFailed ==
  [][\A j \in Jobs :
       (pc[j] \notin {"rejected", "threw"} /\ pc'[j] \in {"rejected", "threw"})
         => /\ handled'[j] = 0
            /\ HasAnalysis(analyses', j)
            /\ analyses'[j].status = "failed"]_vars

\* C9 (amended): a start() failure raised inside the try block (job record
\* missing, no provider configuration, unsupported provider, empty input)
\* processes no resume, re-raises, and leaves the job named in the call, when a
\* record of it is stored, with status 'failed'; the already-running rejection
\* is raised before the try block and changes no stored job.
C9_TryFailureMarksFailed ==
  [][\A j \in Jobs :
       /\ (pc[j] # "threw" /\ pc'[j] = "threw")
            => /\ handled'[j] = 0
               /\ ~invoked'[j]
               /\ err'[j] \in {"NotFound", "NoConfig", "Unsupported", "NoData"}
               /\ HasAnalysis(analyses', j)
                    => /\ analyses'[j].status = "failed"
                       /\ analyses'[j].records = <<>>
       /\ (pc[j] # "rejected" /\ pc'[j] = "rejected")
            => analyses' = analyses]_vars

\* C9 witness: a start() of a stored job failed for want of a configuration
C9_Witness ==
  \E j \in DOMAIN analyses :
    /\ pc[j] = "threw"
    /\ err[j] = "NoConfig"
    /\ analyses[j].status = "failed"

\* C10 (as claimed): an accepted start() with an empty list fails with the
\* no-data error, with no model invocation made and no record appended.
C10_EmptyInputFailsNoData ==
  \A j \in Jobs :
    (Settled(j) /\ totalResumes[j] = 0)
      => /\ pc[j] = "threw"
         /\ err[j] = "NoData"
         /\ ~invoked[j]
         /\ HasAnalysis(analyses, j) => analyses[j].records = <<>>

\* C10 (amended): an accepted start() with an empty list fails with no model
\* invocation made and no record appended; the error is the no-data error
\* when the job record is stored and the configured provider is supported,
\* and the error of the earlier check otherwise.
C10_EmptyInputFailsBeforeModel ==
  \A j \in Jobs :
    (Settled(j) /\ totalResumes[j] = 0)
      => /\ pc[j] = "threw"
         /\ ~invoked[j]
         /\ handled[j] = 0
         /\ HasAnalysis(analyses, j) => analyses[j].records = <<>>
         /\ err[j] = "NoData" <=> (HasAnalysis(analyses, j) /\ llmConfig = "ollama")
         /\ err[j] # "NoData" => err[j] \in {"NotFound", "NoConfig", "Unsupported"}

\* C10 witness: an empty list was refused with the no-data error
C10_Witness ==
  \E j \in DOMAIN analyses :
    /\ pc[j] = "threw"
    /\ totalResumes[j] = 0
    /\ err[j] = "NoData"
    /\ analyses[j].records = <<>>

C12_AtMostMaxAttempts ==
  /\ [](/\ invocations <= maxAttempts
        /\ retryPc = "returned"
             => /\ invocations = Len(errors) + 1
                /\ retryResult = <<"result", invocations>>
                /\ thrown = Null
        /\ retryPc = "threw"
             => /\ invocations = maxAttempts
                /\ Len(errors) = maxAttempts
                /\ thrown = errors[maxAttempts]
                /\ thrown[2] = maxAttempts
                /\ retryResult = Null)
  /\ [][(retryPc \in {"returned", "threw"}) => UNCHANGED retryVars]_allVars

\* C12 witness: the default of three attempts, all failed, the last error thrown
C12_Witness ==
  /\ retryPc = "threw"
  /\ maxAttempts = 3
  /\ invocations = 3
  /\ thrown = errors[3]
  /\ errors[1][1] # thrown[1]

\* C13: the timer set after the k-th failed attempt is 2^(k-1)*1000 ms, one
\* timer per failed attempt that is followed by another attempt and none after
\* the last attempt; failing twice and then succeeding with maxAttempts = 3
\* waits 3000 ms in all.
C13_ExponentialBackoff ==
  /\ \A k \in 1..Len(delays) : delays[k] = 2^(k - 1) * 1000
  /\ retryPc = "waiting" => Len(delays) = Len(errors) /\ attempt < maxAttempts
  /\ retryPc \in {"invoking", "returned"} => Len(delays) = Len(errors)
  /\ retryPc = "threw"
       => Len(delays) = maxAttempts - 1 /\ Len(errors) = maxAttempts
  /\ (maxAttempts = 3 /\ retryPc = "returned" /\ Len(errors) = 2)
       => Len(delays) = 2 /\ delays[1] + delays[2] = 3000

\* C13 witness: maxAttempts = 3, two failures then a success, 3000 ms waited
C13_Witness ==
  /\ maxAttempts = 3
  /\ retryPc = "returned"
  /\ Len(errors) = 2
  /\ delays = <<1000, 2000>>

\* the texts the four steps hand to JSON.parse: the whole text, the fenced
\* block, the brace substring, and what sanitizeJsonLike makes of each
ParsedTexts(text) ==
  LET fencedJson == OrText(extractFencedJson(text, TRUE),
                           extractFencedJson(text, FALSE))
      braceChunk == extractBraceChunk(text)
      found == {text} \cup {x.text : x \in {y \in {fencedJson, braceChunk} : ~Falsy(y)}}
  IN found \cup {sanitizeJsonLike(t).text : t \in found}

C15_ScenarioCParses ==
  (response = ScenarioC /\ normPc = "returned")
    => normResult =
         <<"obj", << <<"fullName", <<"str", "Jane">>>>,
                     <<"skills", <<"arr", << <<"str", "a">>, <<"str", "b">> >> >> >> >> >>

\* both are the fallback, or both are the same parsed value
SameOutcome(a, b) ==
  IF a[1] = "fallback" \/ b[1] = "fallback"
    THEN a[1] = b[1]
    ELSE a = b

\* C16: for every model text the parser of createRobustChain returns what the
\* four-step normalizer returns for it: the same parsed value, or the fallback
\* where the normalizer falls back.
C16_RobustParserIsNormalizer ==
  (normPc = "returned" /\ robustResult # <<"none">>)
    => SameOutcome(normResult, robustResult)

\* the fallback of a section as the specification words it: every personal
\* field "N/A", both lists of education and of work experience empty, and for
\* the additional fields an empty list per toggle switched on and "N/A" per
\* custom field
IsSectionFallback(sec, v) ==
  IF sec = "personal"
    THEN DOMAIN v = PersonalFields /\ \A f \in PersonalFields : v[f] = "N/A"
  ELSE IF sec = "education" THEN v = [education |-> <<>>, certifications |-> <<>>]
  ELSE IF sec = "work" THEN v = [workExperience |-> <<>>, projects |-> <<>>]
  ELSE /\ DOMAIN v = resumeFields.toggles \cup resumeFields.custom
       /\ \A k \in resumeFields.toggles : v[k] = <<>>
       /\ \A k \in resumeFields.custom : v[k] = "N/A"

\* C17: no section extractor throws; an extractor whose model invocation failed
\* on every attempt settles with the fallback of its section; and whatever
\* another extractor did, the answer an extractor obtained is the section the
\* final analysis is given, analyzeResume throwing for no extractor's failure.
C17_ExtractorsNeverThrow ==
  /\ \A sec \in DOMAIN extractor :
       /\ extractor[sec] # "rejected"
       /\ callOutcome[sec] = "invokeFailed"
            => /\ extractor[sec] = "settled"
               /\ IsSectionFallback(sec, sectionValue[sec])
       /\ (resumePc \in {"synth", "returned"} /\ callOutcome[sec] = "parsed")
            => sectionValue[sec] = ModelAnswer(sec, resumeFields)
  /\ resumePc = "threw" => structuredData.isNull

\* C17 witness: the personal-info call failed on every attempt, the education
\* call was answered, and the record carries the fallback and the answer
C17_Witness ==
  /\ resumePc = "returned"
  /\ callOutcome["personal"] = "invokeFailed"
  /\ callOutcome["education"] = "parsed"
  /\ analysisResult["phone"] = "N/A"
  /\ analysisResult["education"] = <<"MSc">>

\* C18: of the section extractors that run for a resume, each is started before
\* any other of them has settled, and the final analysis starts only after all
\* of them have settled.
C18_ExtractorsConcurrent ==
  /\ \A a, b \in DOMAIN extractor :
       (a # b /\ started[a] # 0 /\ settled[b] # 0) => started[a] < settled[b]
  /\ \A a \in DOMAIN extractor :
       (started["synth"] # 0 /\ started[a] # 0)
         => settled[a] # 0 /\ settled[a] < started["synth"]

\* C19: when the additional-fields extraction fails, by invocation failure on
\* every attempt or by a response that does not parse, its value is an empty
\* list per toggle switched on and "N/A" per custom field.
C19_AdditionalFailureGivesEmptyFallback ==
  (resumePc \in {"synth", "returned"}
     /\ callOutcome["additional"] \in {"unparseable", "invokeFailed"})
    => IsSectionFallback("additional", sectionValue["additional"])

\* the section of the structured data is empty or missing: no structured data,
\* no full name or "N/A", no education list or an empty one, no work-experience
\* list or an empty one
SectionEmptyOrMissing(data, sec) ==
  \/ data.isNull
  \/ sec = "personal" /\ OrNA(data.fullName, data.name) = "N/A"
  \/ sec = "education" /\ (~data.education.isArray \/ data.education.items = <<>>)
  \/ sec = "work" /\ (~data.workExperience.isArray \/ data.workExperience.items = <<>>)

\* C20: for personal info, education and work experience, the model is called
\* for a section exactly when that section of the structured data is empty or
\* missing; otherwise the final analysis is given the existing data.
C20_ExtractionIffSectionEmpty ==
  resumePc \notin {"off", "called"}
    => \A sec \in JoinedSections :
         /\ started[sec] # 0 <=> SectionEmptyOrMissing(structuredData, sec)
         /\ (resumePc \in {"synth", "returned"}
               /\ ~SectionEmptyOrMissing(structuredData, sec))
              => sectionValue[sec] = FromExtract(structuredData, sec)

\* the keys of the four sections handed to performFinalAnalysis
SectionKeys == UNION {DOMAIN sectionValue[sec] : sec \in DOMAIN sectionValue}

C28_UnparseableAnswerIsCompleted ==
  /\ [](/\ robustResult[1] = "fallback" =>
             /\ resumePc = "returned"
             /\ retryPc = "returned"
             /\ invocations = Len(errors) + 1
             /\ DOMAIN VerdictFallback \subseteq DOMAIN analysisResult
             /\ \A k \in DOMAIN VerdictFallback : analysisResult[k] = VerdictFallback[k]
             /\ DOMAIN VerdictFallback =
                  {"overallScore", "skillsMatch", "experienceMatch",
                   "educationMatch", "summary", "strengths", "weaknesses",
                   "recommendations"}
             /\ analysisResult["overallScore"] = 0
             /\ analysisResult["summary"] = "Analysis failed"
             /\ analysisResult["status"] = "completed"
        /\ (resumePc = "returned" /\ analysisResult["status"] = "failed") =>
             /\ retryPc = "threw"
             /\ Len(errors) = maxAttempts
             /\ invocations = maxAttempts
             /\ robustResult = <<"none">>)
  /\ [][(robustResult[1] = "fallback") => UNCHANGED <<retryVars, analysisResult>>]_allVars

\* C28 witness: the second invocation was answered with prose, and the record is
\* completed with the fallback verdict
C28_Witness ==
  /\ robustResult[1] = "fallback"
  /\ response = "I cannot score this resume."
  /\ Len(errors) = 1
  /\ invocations = 2
  /\ resumePc = "returned"
  /\ analysisResult["status"] = "completed"
  /\ analysisResult["overallScore"] = 0

\* every one of the four section extractors ran and failed: its model
\* invocation failed on every attempt, or the response did not parse
EveryExtractionFailed ==
  \A sec \in Sections : callOutcome[sec] \in {"unparseable", "invokeFailed"}

\* the keys of a section's fallback
FallbackKeys(sec) == DOMAIN CatchValue(sec, resumeFields)

\* C22: for a batch of one resume whose four section extractions all fail,
\* exactly one record is appended, it has status 'failed' and carries for every
\* section the section's fallback value, and once the call has returned the
\* job's status is 'completed'.
C22_AllExtractionsFailGivesFailedRecord ==
  (pc[BatchJob] \in {"delay", "returned"} /\ EveryExtractionFailed) =>
    /\ Len(analyses[BatchJob].records) = 1
    /\ analyses[BatchJob].records[1]["status"] = "failed"
    /\ \A sec \in Sections :
         /\ FallbackKeys(sec) \subseteq DOMAIN analyses[BatchJob].records[1]
         /\ IsSectionFallback(sec,
              [k \in FallbackKeys(sec) |-> analyses[BatchJob].records[1][k]])
    /\ pc[BatchJob] = "returned" => analyses[BatchJob].status = "completed"

\* C23: enrichContactFields changes email, linkedin, github or website only
\* when the existing value is absent, empty, null or "N/A": every other
\* existing value of the four fields and every other field of the data is
\* returned as it was, and no field other than the four is added.
C23_EnrichmentKeepsExistingValues ==
  enrichPc = "returned" =>
    /\ DOMAIN enrichResult = DOMAIN CopyOf(contactData) \cup ContactFields
    /\ \A k \in DOMAIN CopyOf(contactData) :
         (k \notin ContactFields
            \/ contactData.obj[k] \notin {JsNull, <<"str", "">>, NA})
           => enrichResult[k] = contactData.obj[k]

\* C23 witness: the text holds an email and a LinkedIn URL; the email the data
\* had is kept, its "N/A" LinkedIn URL is replaced
C23_Witness ==
  /\ enrichPc = "returned"
  /\ ~contactData.isNull
  /\ {"email", "linkedin"} \subseteq DOMAIN contactData.obj
  /\ contactData.obj["email"] = <<"str", "kept">>
  /\ contactData.obj["linkedin"] = NA
  /\ contactFound["email"] = <<"str", "found">>
  /\ contactFound["linkedin"] = <<"str", "found">>
  /\ enrichResult["email"] = <<"str", "kept">>
  /\ enrichResult["linkedin"] = <<"str", "found">>

\* the loop of the call for job j has been entered (the total is set) and the
\* call has not failed
InLoopOrDone(j) == pc[j] \in {"analyzing", "delay", "returned"}

\* C24: from the moment the total is set until the batch ends, the job has
\* processedRecords + poolRecords = totalRecords and 0 <= poolRecords <=
\* totalRecords, the total being the number of resumes; each resume handled
\* takes processedRecords up by one and poolRecords down by one in one step.
C24_CountersAddUp ==
  /\ [](\A j \in DOMAIN analyses :
          InLoopOrDone(j) =>
            /\ analyses[j].totalRecords = totalResumes[j]
            /\ analyses[j].processedRecords + analyses[j].poolRecords
                 = analyses[j].totalRecords
            /\ analyses[j].poolRecords >= 0
            /\ analyses[j].poolRecords <= analyses[j].totalRecords)
  /\ [][\A j \in DOMAIN analyses :
          handled'[j] = handled[j] + 1 =>
            /\ analyses'[j].processedRecords = analyses[j].processedRecords + 1
            /\ analyses'[j].poolRecords = analyses[j].poolRecords - 1]_vars

\* C24 witness: one of two resumes handled, one left in the pool
C24_Witness ==
  \E j \in DOMAIN analyses :
    /\ pc[j] = "analyzing"
    /\ analyses[j].totalRecords = 2
    /\ analyses[j].processedRecords = 1
    /\ analyses[j].poolRecords = 1

\* C29: wherever the loop of a call is suspended, the job's processedRecords
\* is the number of records appended to it; a resume handled adds exactly one
\* record and one to the count, whether analyzeResume resolved or threw.
C29_ProcessedEqualsRecords ==
  /\ [](\A j \in DOMAIN analyses :
          pc[j] \in {"analyzing", "delay"} =>
            analyses[j].processedRecords = Len(analyses[j].records))
  /\ [][\A j \in DOMAIN analyses :
          /\ handled'[j] = handled[j] + 1 =>
               /\ Len(analyses'[j].records) = Len(analyses[j].records) + 1
               /\ analyses'[j].processedRecords = analyses[j].processedRecords + 1
          /\ handled'[j] = handled[j] =>
               /\ analyses'[j].records = analyses[j].records
               /\ pc[j] \in {"analyzing", "delay"} =>
                    analyses'[j].processedRecords = analyses[j].processedRecords]_vars

\* C29 witness: the loop is suspended at resume 2 after resume 1 threw
C29_Witness ==
  \E j \in DOMAIN analyses :
    /\ pc[j] = "analyzing"
    /\ i[j] = 1
    /\ lastOutcome[j] = "threw"
    /\ Len(analyses[j].records) = 1
    /\ analyses[j].processedRecords = 1

\* the call for job j starts a resume in this step: analyzeResume is called
StartsResume(j) ==
  /\ pc'[j] = "analyzing"
  /\ pc[j] # "analyzing" \/ i'[j] # i[j]

\* C25: once stop() was called while the call for a job was active, that call
\* starts no further resume, whatever start() calls for other jobs follow.
C25_StopIsNeverCancelled ==
  [][\A j \in Jobs : stopCalled[j] => ~StartsResume(j)]_vars

\* C26: the loop of a call ends before all its resumes were handled only when
\* stop() was called while that call was active; the end of another start()
\* call never cuts it short.
C26_OnlyStopCutsShort ==
  \A j \in Jobs :
    (pc[j] = "returned" /\ handled[j] < totalResumes[j]) => stopCalled[j]

\* a stopAnalysis call resumes after its await in this step
StopResumes == pendingStops # <<>> /\ pendingStops' = Tail(pendingStops)

\* C27: when stopAnalysis resumes after its await, the only job it marks
\* 'stopped' is the one that was current when stop() was called, never a job
\* whose start() came after the stop() call.
C27_StopMarksTheJobItStopped ==
  [][StopResumes =>
       \A j \in DOMAIN analyses :
         (analyses'[j].status = "stopped" /\ analyses[j].status # "stopped")
           => j = Head(pendingStops)]_vars

\* C30: when every await of a call settles, every accepted start() call
\* settles: it handles at most N resumes, and in the step in which it settles
\* the job, when stored, has a terminal status, isProcessing is false and
\* currentAnalysisId is cleared.
C30_AcceptedStartSettles ==
  /\ \A j \in Jobs : Active(j) ~> Settled(j)
  /\ [](\A j \in Jobs : i[j] <= totalResumes[j] /\ handled[j] <= totalResumes[j])
  /\ [][\A j \in Jobs :
          (Active(j) /\ Settled(j)') =>
            /\ ~isProcessing'
            /\ currentAnalysisId' = Null
            /\ HasAnalysis(analyses, j) => analyses'[j].status \in Terminal]_vars

\* C30 witness: a call that handled all its resumes has settled, the flag is
\* false and the current id cleared
C30_Witness ==
  \E j \in DOMAIN analyses :
    /\ pc[j] = "returned"
    /\ handled[j] = MaxResumes
    /\ analyses[j].status = "completed"
    /\ ~isProcessing
    /\ currentAnalysisId = Null

====
